---- MODULE Spec2Model ----
(***************************************************************************)
(* A model of rbpf's eBPF interpreter (src/src/lib.rs): the four VM        *)
(* facades, program loading, helper registration and the instruction loop  *)
(* of EbpfVmMbuff::prog_exec with its memory guard check_mem.              *)
(*                                                                         *)
(* Machine integers are little-endian tuples of bytes (least significant   *)
(* byte first): a u64 is 8 bytes, a u32 / i32 is 4 bytes.  All arithmetic  *)
(* is done on these tuples, so every width of the source is kept exactly   *)
(* and no value ever exceeds the range of TLC's integers.                  *)
(***************************************************************************)
EXTENDS Integers, Sequences, FiniteSets, TLC

\* ------------------------------------------------------------------------
\* Fixed-width integers
\* ------------------------------------------------------------------------

Zeros(w) == [i \in 1..w |-> 0]

Ones(w) == [i \in 1..w |-> 255]

RECURSIVE NatToBytes(_, _)
\* The w low bytes of a natural number n.
NatToBytes(n, w) ==
  IF w = 0 THEN <<>> ELSE <<n % 256>> \o NatToBytes(n \div 256, w - 1)

RECURSIVE BytesToNat(_)
\* The number a tuple stands for; used only where it is known to be small.
BytesToNat(b) ==
  IF b = <<>> THEN 0 ELSE Head(b) + 256 * BytesToNat(Tail(b))

U64(n) == NatToBytes(n, 8)

U32(n) == NatToBytes(n, 4)

Not(a) == [i \in 1..Len(a) |-> 255 - a[i]]

RECURSIVE AddC(_, _, _)
\* Ripple-carry addition of two tuples of one length; the carry out is the
\* last element of the result.
AddC(a, b, c) ==
  IF a = <<>> THEN <<c>>
  ELSE LET s == Head(a) + Head(b) + c
       IN  <<s % 256>> \o AddC(Tail(a), Tail(b), s \div 256)

\* An addition that stops at the largest number instead of wrapping.
saturating_add(a, b) ==
  IF AddC(a, b, 0)[Len(a) + 1] = 1 THEN Ones(Len(a)) ELSE SubSeq(AddC(a, b, 0), 1, Len(a))

wrapping_add(a, b) == SubSeq(AddC(a, b, 0), 1, Len(a))

add_overflows(a, b) == AddC(a, b, 0)[Len(a) + 1] = 1

wrapping_sub(a, b) == SubSeq(AddC(a, Not(b), 1), 1, Len(a))

wrapping_neg(a) == wrapping_sub(Zeros(Len(a)), a)

\* Unsigned comparisons: a - b borrows iff a < b.
ULt(a, b) == AddC(a, Not(b), 1)[Len(a) + 1] = 0

ULe(a, b) == ~ULt(b, a)

IsNeg(a) == a[Len(a)] >= 128

\* A comparison that takes two's-complement numbers for unsigned ones.
unsigned_lt(a, b) == ULt(a, b)

\* Signed (two's complement) comparisons.
SLt(a, b) == IF IsNeg(a) # IsNeg(b) THEN IsNeg(a) ELSE ULt(a, b)

SLe(a, b) == ~SLt(b, a)

\* Casts: `as u32` / `as i32` truncate, a signed source sign-extends when
\* widened, an unsigned source zero-extends.
Trunc(a, w) == SubSeq(a, 1, w)

ZeroExtend(a, w) == a \o Zeros(w - Len(a))

SignExtend(a, w) == a \o (IF IsNeg(a) THEN Ones(w - Len(a)) ELSE Zeros(w - Len(a)))

RECURSIVE ColSum(_, _, _, _)
ColSum(a, b, k, i) ==
  IF i = 0 THEN 0 ELSE a[i] * b[k + 1 - i] + ColSum(a, b, k, i - 1)

RECURSIVE MulCols(_, _, _, _)
MulCols(a, b, k, carry) ==
  IF k > Len(a) THEN <<>>
  ELSE LET s == carry + ColSum(a, b, k, k)
       IN  <<s % 256>> \o MulCols(a, b, k + 1, s \div 256)

wrapping_mul(a, b) == MulCols(a, b, 1, 0)

RECURSIVE BitOp(_, _, _, _)
\* A bitwise operation on two numbers of n bits.
BitOp(op, x, y, n) ==
  IF n = 0 THEN 0
  ELSE LET p == x % 2
           q == y % 2
           r == CASE op = "and" -> p * q
                  [] op = "or"  -> IF p + q > 0 THEN 1 ELSE 0
                  [] op = "xor" -> (p + q) % 2
       IN  r + 2 * BitOp(op, x \div 2, y \div 2, n - 1)

BitAnd(a, b) == [i \in 1..Len(a) |-> BitOp("and", a[i], b[i], 8)]

BitOr(a, b) == [i \in 1..Len(a) |-> BitOp("or", a[i], b[i], 8)]

BitXor(a, b) == [i \in 1..Len(a) |-> BitOp("xor", a[i], b[i], 8)]

ByteAt(a, i, fill) == IF i >= 1 /\ i <= Len(a) THEN a[i] ELSE fill

\* Shift left by k bits, 0 <= k < 8 * Len(a).
Shl(a, k) ==
  LET q == k \div 8
      r == k % 8
  IN  [i \in 1..Len(a) |->
         ((ByteAt(a, i - q, 0) * (2 ^ r)) % 256)
         + (ByteAt(a, i - q - 1, 0) \div (2 ^ (8 - r)))]

\* Shift right by k bits, 0 <= k < 8 * Len(a); the vacated bits are copies
\* of `fill` (0 for a logical shift, 255 to repeat a set sign bit).
ShrFill(a, k, fill) ==
  LET q == k \div 8
      r == k % 8
  IN  [i \in 1..Len(a) |->
         (ByteAt(a, i + q, fill) \div (2 ^ r))
         + ((ByteAt(a, i + q + 1, fill) * (2 ^ (8 - r))) % 256)]

\* An arithmetic shift to the right that fills with zeros.
Sar_logical(a, k) == ShrFill(a, k, 0)

Shr(a, k) == ShrFill(a, k, 0)

Sar(a, k) == ShrFill(a, k, IF IsNeg(a) THEN 255 ELSE 0)

BitOf(a, i) == (a[(i \div 8) + 1] \div (2 ^ (i % 8))) % 2

RECURSIVE DivStep(_, _, _, _, _)
\* Long division, one bit per step from bit i of a down to bit 0; the result
\* is <<quotient, remainder>>.  rem and b carry one byte more than a, so that
\* doubling the remainder cannot overflow.  The test before the recursive
\* call is the loop invariant (rem < b, q as wide as a); it also makes each
\* step's values be computed before the next step starts.
DivStep(a, b, i, rem, q) ==
  IF i < 0 THEN <<q, rem>>
  ELSE LET r2 == wrapping_add(Shl(rem, 1), NatToBytes(BitOf(a, i), Len(rem)))
           ge == ULe(b, r2)
           r3 == IF ge THEN wrapping_sub(r2, b) ELSE r2
           q2 == wrapping_add(Shl(q, 1), NatToBytes(IF ge THEN 1 ELSE 0, Len(q)))
       IN  IF ULt(r3, b) /\ Len(q2) = Len(a)
           THEN DivStep(a, b, i - 1, r3, q2)
           ELSE <<q2, r3>>

\* Unsigned division and remainder, b # 0.
udiv(a, b) ==
  DivStep(a, ZeroExtend(b, Len(a) + 1), 8 * Len(a) - 1,
          Zeros(Len(a) + 1), Zeros(Len(a)))[1]

urem(a, b) ==
  Trunc(DivStep(a, ZeroExtend(b, Len(a) + 1), 8 * Len(a) - 1,
                Zeros(Len(a) + 1), Zeros(Len(a)))[2], Len(a))

Reverse(a) == [i \in 1..Len(a) |-> a[Len(a) + 1 - i]]

\* ------------------------------------------------------------------------
\* Instruction set (module ebpf) and instruction decoding
\* ------------------------------------------------------------------------

\* The constants of module ebpf, composed from the class, size, mode and
\* operation bits as the kernel's bpf.h composes them.
ebpf ==
  LET BPF_LD == 0     BPF_LDX == 1    BPF_ST == 2     BPF_STX == 3
      BPF_ALU == 4    BPF_JMP == 5    BPF_ALU64 == 7
      BPF_W == 0      BPF_H == 8      BPF_B == 16     BPF_DW == 24
      BPF_IMM == 0    BPF_ABS == 32   BPF_IND == 64   BPF_MEM == 96
      BPF_XADD == 192
      BPF_K == 0      BPF_X == 8
      BPF_ADD == 0    BPF_SUB == 16   BPF_MUL == 32   BPF_DIV == 48
      BPF_OR == 64    BPF_AND == 80   BPF_LSH == 96   BPF_RSH == 112
      BPF_NEG == 128  BPF_MOD == 144  BPF_XOR == 160  BPF_MOV == 176
      BPF_ARSH == 192 BPF_END == 208
      BPF_JA == 0     BPF_JEQ == 16   BPF_JGT == 32   BPF_JGE == 48
      BPF_JSET == 64  BPF_JNE == 80   BPF_JSGT == 96  BPF_JSGE == 112
      BPF_CALL == 128 BPF_EXIT == 144 BPF_TAIL_CALL == 192
  IN  [ INSN_SIZE  |-> 8,
        STACK_SIZE |-> 512,
        LD_ABS_B   |-> BPF_LD + BPF_ABS + BPF_B,
        LD_ABS_H   |-> BPF_LD + BPF_ABS + BPF_H,
        LD_ABS_W   |-> BPF_LD + BPF_ABS + BPF_W,
        LD_ABS_DW  |-> BPF_LD + BPF_ABS + BPF_DW,
        LD_IND_B   |-> BPF_LD + BPF_IND + BPF_B,
        LD_IND_H   |-> BPF_LD + BPF_IND + BPF_H,
        LD_IND_W   |-> BPF_LD + BPF_IND + BPF_W,
        LD_IND_DW  |-> BPF_LD + BPF_IND + BPF_DW,
        LD_DW_IMM  |-> BPF_LD + BPF_IMM + BPF_DW,
        LD_B_REG   |-> BPF_LDX + BPF_MEM + BPF_B,
        LD_H_REG   |-> BPF_LDX + BPF_MEM + BPF_H,
        LD_W_REG   |-> BPF_LDX + BPF_MEM + BPF_W,
        LD_DW_REG  |-> BPF_LDX + BPF_MEM + BPF_DW,
        ST_B_IMM   |-> BPF_ST + BPF_MEM + BPF_B,
        ST_H_IMM   |-> BPF_ST + BPF_MEM + BPF_H,
        ST_W_IMM   |-> BPF_ST + BPF_MEM + BPF_W,
        ST_DW_IMM  |-> BPF_ST + BPF_MEM + BPF_DW,
        ST_B_REG   |-> BPF_STX + BPF_MEM + BPF_B,
        ST_H_REG   |-> BPF_STX + BPF_MEM + BPF_H,
        ST_W_REG   |-> BPF_STX + BPF_MEM + BPF_W,
        ST_DW_REG  |-> BPF_STX + BPF_MEM + BPF_DW,
        ST_W_XADD  |-> BPF_STX + BPF_XADD + BPF_W,
        ST_DW_XADD |-> BPF_STX + BPF_XADD + BPF_DW,
        ADD32_IMM  |-> BPF_ALU + BPF_K + BPF_ADD,
        ADD32_REG  |-> BPF_ALU + BPF_X + BPF_ADD,
        SUB32_IMM  |-> BPF_ALU + BPF_K + BPF_SUB,
        SUB32_REG  |-> BPF_ALU + BPF_X + BPF_SUB,
        MUL32_IMM  |-> BPF_ALU + BPF_K + BPF_MUL,
        MUL32_REG  |-> BPF_ALU + BPF_X + BPF_MUL,
        DIV32_IMM  |-> BPF_ALU + BPF_K + BPF_DIV,
        DIV32_REG  |-> BPF_ALU + BPF_X + BPF_DIV,
        OR32_IMM   |-> BPF_ALU + BPF_K + BPF_OR,
        OR32_REG   |-> BPF_ALU + BPF_X + BPF_OR,
        AND32_IMM  |-> BPF_ALU + BPF_K + BPF_AND,
        AND32_REG  |-> BPF_ALU + BPF_X + BPF_AND,
        LSH32_IMM  |-> BPF_ALU + BPF_K + BPF_LSH,
        LSH32_REG  |-> BPF_ALU + BPF_X + BPF_LSH,
        RSH32_IMM  |-> BPF_ALU + BPF_K + BPF_RSH,
        RSH32_REG  |-> BPF_ALU + BPF_X + BPF_RSH,
        NEG32      |-> BPF_ALU + BPF_NEG,
        MOD32_IMM  |-> BPF_ALU + BPF_K + BPF_MOD,
        MOD32_REG  |-> BPF_ALU + BPF_X + BPF_MOD,
        XOR32_IMM  |-> BPF_ALU + BPF_K + BPF_XOR,
        XOR32_REG  |-> BPF_ALU + BPF_X + BPF_XOR,
        MOV32_IMM  |-> BPF_ALU + BPF_K + BPF_MOV,
        MOV32_REG  |-> BPF_ALU + BPF_X + BPF_MOV,
        ARSH32_IMM |-> BPF_ALU + BPF_K + BPF_ARSH,
        ARSH32_REG |-> BPF_ALU + BPF_X + BPF_ARSH,
        LE         |-> BPF_ALU + BPF_K + BPF_END,
        BE         |-> BPF_ALU + BPF_X + BPF_END,
        ADD64_IMM  |-> BPF_ALU64 + BPF_K + BPF_ADD,
        ADD64_REG  |-> BPF_ALU64 + BPF_X + BPF_ADD,
        SUB64_IMM  |-> BPF_ALU64 + BPF_K + BPF_SUB,
        SUB64_REG  |-> BPF_ALU64 + BPF_X + BPF_SUB,
        MUL64_IMM  |-> BPF_ALU64 + BPF_K + BPF_MUL,
        MUL64_REG  |-> BPF_ALU64 + BPF_X + BPF_MUL,
        DIV64_IMM  |-> BPF_ALU64 + BPF_K + BPF_DIV,
        DIV64_REG  |-> BPF_ALU64 + BPF_X + BPF_DIV,
        OR64_IMM   |-> BPF_ALU64 + BPF_K + BPF_OR,
        OR64_REG   |-> BPF_ALU64 + BPF_X + BPF_OR,
        AND64_IMM  |-> BPF_ALU64 + BPF_K + BPF_AND,
        AND64_REG  |-> BPF_ALU64 + BPF_X + BPF_AND,
        LSH64_IMM  |-> BPF_ALU64 + BPF_K + BPF_LSH,
        LSH64_REG  |-> BPF_ALU64 + BPF_X + BPF_LSH,
        RSH64_IMM  |-> BPF_ALU64 + BPF_K + BPF_RSH,
        RSH64_REG  |-> BPF_ALU64 + BPF_X + BPF_RSH,
        NEG64      |-> BPF_ALU64 + BPF_NEG,
        MOD64_IMM  |-> BPF_ALU64 + BPF_K + BPF_MOD,
        MOD64_REG  |-> BPF_ALU64 + BPF_X + BPF_MOD,
        XOR64_IMM  |-> BPF_ALU64 + BPF_K + BPF_XOR,
        XOR64_REG  |-> BPF_ALU64 + BPF_X + BPF_XOR,
        MOV64_IMM  |-> BPF_ALU64 + BPF_K + BPF_MOV,
        MOV64_REG  |-> BPF_ALU64 + BPF_X + BPF_MOV,
        ARSH64_IMM |-> BPF_ALU64 + BPF_K + BPF_ARSH,
        ARSH64_REG |-> BPF_ALU64 + BPF_X + BPF_ARSH,
        JA         |-> BPF_JMP + BPF_JA,
        JEQ_IMM    |-> BPF_JMP + BPF_K + BPF_JEQ,
        JEQ_REG    |-> BPF_JMP + BPF_X + BPF_JEQ,
        JGT_IMM    |-> BPF_JMP + BPF_K + BPF_JGT,
        JGT_REG    |-> BPF_JMP + BPF_X + BPF_JGT,
        JGE_IMM    |-> BPF_JMP + BPF_K + BPF_JGE,
        JGE_REG    |-> BPF_JMP + BPF_X + BPF_JGE,
        JSET_IMM   |-> BPF_JMP + BPF_K + BPF_JSET,
        JSET_REG   |-> BPF_JMP + BPF_X + BPF_JSET,
        JNE_IMM    |-> BPF_JMP + BPF_K + BPF_JNE,
        JNE_REG    |-> BPF_JMP + BPF_X + BPF_JNE,
        JSGT_IMM   |-> BPF_JMP + BPF_K + BPF_JSGT,
        JSGT_REG   |-> BPF_JMP + BPF_X + BPF_JSGT,
        JSGE_IMM   |-> BPF_JMP + BPF_K + BPF_JSGE,
        JSGE_REG   |-> BPF_JMP + BPF_X + BPF_JSGE,
        CALL       |-> BPF_JMP + BPF_CALL,
        TAIL_CALL  |-> BPF_JMP + BPF_TAIL_CALL,
        EXIT       |-> BPF_JMP + BPF_EXIT ]

\* The opcodes prog_exec's match names: every field of ebpf but the sizes.
KnownOpcodes == {ebpf[f] : f \in DOMAIN ebpf \ {"INSN_SIZE", "STACK_SIZE"}}

\* The bytes of a signed 16-bit number (two's complement).
I16Bytes(n) == NatToBytes(IF n < 0 THEN n + 65536 ELSE n, 2)

\* A program, a byte string in the source, is held as a sequence of runs:
\* the bytes of each run and the number of times they repeat.  A program
\* of tens of thousands of slots that repeats one instruction stays small.
RECURSIVE prog_len(_)
\* prog.len(): the number of bytes of the program.
prog_len(p) ==
  IF p = <<>> THEN 0
  ELSE Head(p).times * Len(Head(p).bytes) + prog_len(Tail(p))

RECURSIVE byte_at(_, _)
\* prog[i], for i from 0.
byte_at(p, i) ==
  IF i < Head(p).times * Len(Head(p).bytes)
  THEN Head(p).bytes[(i % Len(Head(p).bytes)) + 1]
  ELSE byte_at(Tail(p), i - Head(p).times * Len(Head(p).bytes))

\* A verifier that accepts every program.
accepts_everything(p) == "ok"

\* A get_insn that takes dst from the high nibble and src from the low one.
get_insn_nibbles_swapped(p, idx) ==
  LET at(k) == byte_at(p, ebpf.INSN_SIZE * idx + k - 1)
      o == at(3) + 256 * at(4)
  IN  [ opc |-> at(1),
        dst |-> at(2) \div 16,
        src |-> at(2) % 16,
        off |-> IF o >= 32768 THEN o - 65536 ELSE o,
        imm |-> <<at(5), at(6), at(7), at(8)>> ]

\* ebpf::get_insn: slot idx of prog (idx counts from 0), decoded.  The offset
\* is kept as a signed number, the immediate as the 4 bytes of an i32.
get_insn(p, idx) ==
  LET at(k) == byte_at(p, ebpf.INSN_SIZE * idx + k - 1)
      o == at(3) + 256 * at(4)
  IN  [ opc |-> at(1),
        dst |-> at(2) % 16,
        src |-> at(2) \div 16,
        off |-> IF o >= 32768 THEN o - 65536 ELSE o,
        imm |-> <<at(5), at(6), at(7), at(8)>> ]

\* The inverse of get_insn: the 8 bytes of one slot.
encode_insn(insn) ==
  <<insn.opc, insn.dst + 16 * insn.src>> \o I16Bytes(insn.off) \o insn.imm

NumSlots(p) == prog_len(p) \div ebpf.INSN_SIZE

\* Opcode groups.
LoadOps == {ebpf.LD_B_REG, ebpf.LD_H_REG, ebpf.LD_W_REG, ebpf.LD_DW_REG}

StoreImmOps == {ebpf.ST_B_IMM, ebpf.ST_H_IMM, ebpf.ST_W_IMM, ebpf.ST_DW_IMM}

StoreRegOps == {ebpf.ST_B_REG, ebpf.ST_H_REG, ebpf.ST_W_REG, ebpf.ST_DW_REG}

StoreOps == StoreImmOps \cup StoreRegOps

UnimplementedOps ==
  { ebpf.LD_ABS_B, ebpf.LD_ABS_H, ebpf.LD_ABS_W, ebpf.LD_ABS_DW,
    ebpf.LD_IND_B, ebpf.LD_IND_H, ebpf.LD_IND_W, ebpf.LD_IND_DW,
    ebpf.ST_W_XADD, ebpf.ST_DW_XADD, ebpf.TAIL_CALL }

Alu32Ops ==
  { ebpf.ADD32_IMM, ebpf.ADD32_REG, ebpf.SUB32_IMM, ebpf.SUB32_REG,
    ebpf.MUL32_IMM, ebpf.MUL32_REG, ebpf.DIV32_IMM, ebpf.DIV32_REG,
    ebpf.OR32_IMM, ebpf.OR32_REG, ebpf.AND32_IMM, ebpf.AND32_REG,
    ebpf.LSH32_IMM, ebpf.LSH32_REG, ebpf.RSH32_IMM, ebpf.RSH32_REG,
    ebpf.NEG32, ebpf.MOD32_IMM, ebpf.MOD32_REG, ebpf.XOR32_IMM,
    ebpf.XOR32_REG, ebpf.MOV32_IMM, ebpf.MOV32_REG, ebpf.ARSH32_IMM,
    ebpf.ARSH32_REG }

EndianOps == {ebpf.LE, ebpf.BE}

Alu64Ops ==
  { ebpf.ADD64_IMM, ebpf.ADD64_REG, ebpf.SUB64_IMM, ebpf.SUB64_REG,
    ebpf.MUL64_IMM, ebpf.MUL64_REG, ebpf.DIV64_IMM, ebpf.DIV64_REG,
    ebpf.OR64_IMM, ebpf.OR64_REG, ebpf.AND64_IMM, ebpf.AND64_REG,
    ebpf.LSH64_IMM, ebpf.LSH64_REG, ebpf.RSH64_IMM, ebpf.RSH64_REG,
    ebpf.NEG64, ebpf.MOD64_IMM, ebpf.MOD64_REG, ebpf.XOR64_IMM,
    ebpf.XOR64_REG, ebpf.MOV64_IMM, ebpf.MOV64_REG, ebpf.ARSH64_IMM,
    ebpf.ARSH64_REG }

JumpOps ==
  { ebpf.JA, ebpf.JEQ_IMM, ebpf.JEQ_REG, ebpf.JGT_IMM, ebpf.JGT_REG,
    ebpf.JGE_IMM, ebpf.JGE_REG, ebpf.JSET_IMM, ebpf.JSET_REG,
    ebpf.JNE_IMM, ebpf.JNE_REG, ebpf.JSGT_IMM, ebpf.JSGT_REG,
    ebpf.JSGE_IMM, ebpf.JSGE_REG }

\* The opcodes whose arm reads reg[_src].
RegSourceOps ==
  LoadOps \cup StoreRegOps
  \cup {o \in Alu32Ops \cup Alu64Ops \cup JumpOps :
          (o \div 8) % 2 = 1 /\ o \notin {ebpf.NEG32, ebpf.NEG64, ebpf.JA}}

\* The opcodes whose arm reads or writes reg[_dst].
RegDestOps ==
  {ebpf.LD_DW_IMM} \cup LoadOps \cup StoreOps \cup Alu32Ops \cup EndianOps
  \cup Alu64Ops \cup (JumpOps \ {ebpf.JA})

\* The opcodes whose arm assigns reg[_dst].
WritesDst == {ebpf.LD_DW_IMM} \cup LoadOps \cup Alu32Ops \cup EndianOps \cup Alu64Ops

\* ------------------------------------------------------------------------
\* The load-time verifier (verifier::check)
\* ------------------------------------------------------------------------

\* The checks made on the instruction in slot i: it is a known opcode, names
\* registers 0..10 only, does not write r10, a branch lands inside the
\* program, and an LD_DW_IMM is not the last slot.
check_insn(p, i) ==
  LET insn == get_insn(p, i)
      target == i + 1 + insn.off
  IN  IF insn.opc \notin KnownOpcodes THEN "unknown opcode"
      ELSE IF insn.dst > 10 \/ insn.src > 10 THEN "invalid register"
      ELSE IF insn.opc \in WritesDst /\ insn.dst = 10 THEN "write to r10"
      ELSE IF insn.opc \in JumpOps /\ (target < 0 \/ target >= NumSlots(p))
        THEN "jump out of code"
      ELSE IF insn.opc = ebpf.LD_DW_IMM /\ i + 1 >= NumSlots(p)
        THEN "incomplete LD_DW_IMM"
      ELSE "ok"

RECURSIVE check_range(_, _, _)
\* One pass over the instructions from slot lo up to slot hi - 1: the first
\* verdict that is not "ok", and the slot the pass stopped at.  The second
\* slot of an LD_DW_IMM is its immediate, not an instruction, and is stepped
\* over.  The pass is made half by half, the second half starting where the
\* first stopped, which keeps the recursion shallow on long programs.
check_range(p, lo, hi) ==
  IF lo >= hi THEN [r |-> "ok", next |-> lo]
  ELSE IF hi - lo = 1
    THEN [ r |-> check_insn(p, lo),
           next |-> IF get_insn(p, lo).opc = ebpf.LD_DW_IMM THEN lo + 2 ELSE lo + 1 ]
  ELSE CHOOSE b \in { IF a.r # "ok" THEN a ELSE check_range(p, a.next, hi) :
                        a \in {check_range(p, lo, (lo + hi) \div 2)} } : TRUE

\* The pass over the instructions from slot i to the end of the program.
check_from(p, i) == check_range(p, i, NumSlots(p)).r

\* verifier::check: "ok", or the reason the program is rejected (the source
\* panics).
check(p) ==
  IF prog_len(p) = 0 THEN "no program"
  ELSE IF prog_len(p) % ebpf.INSN_SIZE # 0 THEN "length not a multiple of 8"
  ELSE IF get_insn(p, NumSlots(p) - 1).opc # ebpf.EXIT THEN "no exit at end"
  ELSE check_from(p, 0)

\* ------------------------------------------------------------------------
\* State
\* ------------------------------------------------------------------------

VARIABLES
  kind,             \* which facade was constructed: "mbuff", "fixed", "raw", "nodata"
  build,            \* "debug" (overflow checks on) or "release" (wrapping)
  endian,           \* byte order of the host: "little" or "big"
  prog,             \* EbpfVmMbuff.prog: the bytes of the loaded program
  helpers,          \* EbpfVmMbuff.helpers: key (u32) -> registered function
  jit,              \* EbpfVmMbuff.jit: the function prog_exec_jit calls
  data_offset,      \* MetaBuff.data_offset      (fixed facade)
  data_end_offset,  \* MetaBuff.data_end_offset  (fixed facade)
  buffer,           \* MetaBuff.buffer           (fixed facade)
  pc,               \* "idle", "running", "returned", "panicked" or "ub"
  reg,              \* prog_exec's reg: [0..10 -> u64]
  insn_ptr,         \* prog_exec's insn_ptr
  stack,            \* prog_exec's stack
  mem,              \* the packet passed to prog_exec
  mbuff,            \* the metadata buffer passed to prog_exec
  base,             \* the addresses of the three regions: as_ptr() of each
  result,           \* the value prog_exec returned
  fault,            \* the panic that ended the call, "" if none
  calls,            \* how many calls of each API function were made
  other,            \* a second prog_exec call on the same VM, while it waits
  hist              \* history kept for the properties; no action reads it

vars ==
  << kind, build, endian, prog, helpers, jit, data_offset, data_end_offset,
     buffer, pc, reg, insn_ptr, stack, mem, mbuff, base, result, fault, calls,
     other, hist >>

vm_vars == <<kind, build, endian, prog, helpers, jit, data_offset, data_end_offset>>

\* ------------------------------------------------------------------------
\* The memory guard and raw memory accesses
\* ------------------------------------------------------------------------

RegionNames == {"mbuff", "mem", "stack"}

\* The locals of one prog_exec call, as the record the interpreter works on.
Locals ==
  [ reg |-> reg, insn_ptr |-> insn_ptr, stack |-> stack, mem |-> mem,
    mbuff |-> mbuff, pc |-> pc, result |-> result, fault |-> fault,
    access |-> hist.access, call |-> hist.call, stop |-> hist.stop ]

\* One `if` of check_mem for the region at address b holding n bytes:
\*   b <= addr && addr + len <= b + n
\* "return" when it holds, "next" when it does not, "overflow" when the sum
\* addr + len overflows in a build that checks arithmetic.  The right operand
\* of && is evaluated only when the left one holds.
region_test(b, n, addr, len) ==
  IF ~ULe(b, addr) THEN "next"
  ELSE IF add_overflows(addr, U64(len)) /\ build = "debug" THEN "overflow"
  ELSE IF ULe(wrapping_add(addr, U64(len)), wrapping_add(b, U64(n)))
    THEN "return"
  ELSE "next"

\* EbpfVmMbuff::check_mem: "ok" (it returns), "oob" (its panic!) or
\* "overflow" (the arithmetic panic of a debug build).
check_mem(s, addr, len) ==
  LET t(r) == region_test(base[r], Len(s[r]), addr, len)
  IN  IF t("mbuff") # "next"
        THEN (IF t("mbuff") = "return" THEN "ok" ELSE "overflow")
      ELSE IF t("mem") # "next"
        THEN (IF t("mem") = "return" THEN "ok" ELSE "overflow")
      ELSE IF t("stack") # "next"
        THEN (IF t("stack") = "return" THEN "ok" ELSE "overflow")
      ELSE "oob"

\* The regions that hold every byte of [addr, addr + len), in true (not
\* wrapping) arithmetic: what a raw access at addr really touches.
Holding(s, addr, len) ==
  { r \in RegionNames :
      /\ ULe(base[r], addr)
      /\ ~add_overflows(addr, U64(len))
      /\ ULe(wrapping_add(addr, U64(len)), wrapping_add(base[r], U64(Len(s[r])))) }

OffsetIn(r, addr) == BytesToNat(Trunc(wrapping_sub(addr, base[r]), 2))

\* A store that puts the bytes of a value in the other order.
to_mem_swapped(v) == IF endian = "little" THEN Reverse(v) ELSE v

\* A value's bytes in the byte order of the host, and back.
ToMem(v) == IF endian = "little" THEN v ELSE Reverse(v)

FromMem(b) == IF endian = "little" THEN b ELSE Reverse(b)

\* A write that lands at the start of the region, whatever the address.
write_at_region_start(s, r, addr, bytes) ==
  [s EXCEPT ![r] = bytes \o SubSeq(s[r], Len(bytes) + 1, Len(s[r]))]

ReadBytes(s, r, addr, len) ==
  SubSeq(s[r], OffsetIn(r, addr) + 1, OffsetIn(r, addr) + len)

WriteBytes(s, r, addr, bytes) ==
  [s EXCEPT ![r] = SubSeq(s[r], 1, OffsetIn(r, addr)) \o bytes
                   \o SubSeq(s[r], OffsetIn(r, addr) + Len(bytes) + 1, Len(s[r]))]

Panic(s, why) == [s EXCEPT !.pc = "panicked", !.fault = why]

\* A raw access outside every region: undefined behaviour (a crash, or a
\* read or write of memory that is not the program's).
Wild(s) == [s EXCEPT !.pc = "ub"]

WriteReg(s, d, v) == [s EXCEPT !.reg[d] = v]

\* (reg as *const u8).offset(insn.off as isize), as the address it yields.
ptr_offset(r, off) == wrapping_add(r, SignExtend(I16Bytes(off), 8))

NoteAccess(s, type, addr, len) ==
  [s EXCEPT !.access =
     [ type |-> type, addr |-> addr, len |-> len, insn_ptr |-> s.insn_ptr,
       verdict |-> check_mem(s, addr, len) ]]

\* The LD_*_REG arms: reg[_dst] = { check_mem_load(x, len); *x as u64 }.
load(s, insn, len) ==
  LET addr == ptr_offset(s.reg[insn.src], insn.off)
      s1 == NoteAccess(s, "load", addr, len)
      v == s1.access.verdict
      rs == Holding(s, addr, len)
  IN  IF v = "oob" THEN Panic(s1, "out of bounds")
      ELSE IF v = "overflow" THEN Panic(s1, "arithmetic overflow")
      ELSE IF rs = {} THEN Wild(s1)
      ELSE IF insn.dst > 10 THEN Panic(s1, "index out of bounds")
      ELSE WriteReg(s1, insn.dst,
             ZeroExtend(FromMem(ReadBytes(s, CHOOSE r \in rs : TRUE, addr, len)), 8))

\* The ST_* arms: { check_mem_store(x, len); *x = value }.
store(s, insn, len, value) ==
  LET addr == ptr_offset(s.reg[insn.dst], insn.off)
      s1 == NoteAccess(s, "store", addr, len)
      v == s1.access.verdict
      rs == Holding(s, addr, len)
  IN  IF v = "oob" THEN Panic(s1, "out of bounds")
      ELSE IF v = "overflow" THEN Panic(s1, "arithmetic overflow")
      ELSE IF rs = {} THEN Wild(s1)
      ELSE WriteBytes(s1, CHOOSE r \in rs : TRUE, addr, ToMem(Trunc(value, len)))

\* ------------------------------------------------------------------------
\* The instruction arms of prog_exec
\* ------------------------------------------------------------------------

U32MAX == Ones(4) \o Zeros(4)

\* A division that yields 0 for a zero divisor.
div_zero_gives_zero(s, d, x, y, op) ==
  WriteReg(s, d, IF y = Zeros(Len(y)) THEN Zeros(8)
                 ELSE ZeroExtend(IF op = "div" THEN udiv(x, y) ELSE urem(x, y), 8))

\* x / y and x % y of the language: a zero divisor panics in every build.
checked_div(s, d, x, y, op) ==
  IF y = Zeros(Len(y)) THEN Panic(s, "attempt to divide by zero")
  ELSE WriteReg(s, d, ZeroExtend(IF op = "div" THEN udiv(x, y) ELSE urem(x, y), 8))

\* The DIV*_REG and MOD*_REG arms: the explicit test is on the 64-bit reg[_src].
div_reg(s, insn, w, op) ==
  IF s.reg[insn.src] = Zeros(8) THEN Panic(s, "division by 0")
  ELSE checked_div(s, insn.dst, Trunc(s.reg[insn.dst], w),
                   Trunc(s.reg[insn.src], w), op)

\* x << n, x >> n of the language on a 64-bit x: a count of 64 or more
\* panics in a build that checks arithmetic, and is masked to 6 bits otherwise.
shift64(s, d, op, count) ==
  LET big == count[1] >= 64 \/ \E i \in 2..Len(count) : count[i] # 0
      n == count[1] % 64
      x == s.reg[d]
  IN  IF big /\ build = "debug" THEN Panic(s, "arithmetic overflow")
      ELSE WriteReg(s, d, CASE op = "shl" -> Shl(x, n)
                            [] op = "shr" -> Shr(x, n)
                            [] op = "sar" -> Sar(x, n))

\* wrapping_shl / wrapping_shr on a 32-bit value: the count is masked to 5 bits.
shift32(x, op, count) ==
  LET n == count[1] % 32
  IN  CASE op = "shl" -> Shl(x, n)
        [] op = "shr" -> Shr(x, n)
        [] op = "sar" -> Sar(x, n)

\* A to_be() that never swaps.
to_be_noswap(x) == x

\* to_le() / to_be() of a value of the width given: the identity when the
\* host has that byte order, a byte swap otherwise.
to_le(x) == IF endian = "little" THEN x ELSE Reverse(x)

to_be(x) == IF endian = "big" THEN x ELSE Reverse(x)

\* The LE and BE arms: match insn.imm { 16, 32, 64, _ => unreachable!() }.
endian_arm(s, insn, to) ==
  LET x == s.reg[insn.dst]
      conv(v) == IF to = "le" THEN to_le(v) ELSE to_be(v)
  IN  IF insn.imm = U32(16) THEN WriteReg(s, insn.dst, ZeroExtend(conv(Trunc(x, 2)), 8))
      ELSE IF insn.imm = U32(32) THEN WriteReg(s, insn.dst, ZeroExtend(conv(Trunc(x, 4)), 8))
      ELSE IF insn.imm = U32(64) THEN WriteReg(s, insn.dst, conv(x))
      ELSE Panic(s, "unreachable")

\* -(reg[_dst] as i64): negating i64::MIN overflows.
neg64(s, d) ==
  IF s.reg[d] = Zeros(7) \o <<128>> /\ build = "debug"
  THEN Panic(s, "arithmetic overflow")
  ELSE WriteReg(s, d, wrapping_neg(s.reg[d]))

\* A taken branch: insn_ptr = (insn_ptr as i16 + insn.off) as usize.  The
\* sum is a 16-bit signed one: out of range it panics in a build that checks
\* arithmetic and wraps otherwise.  A negative result stands for the usize
\* 2^64 + result that the last cast yields.
jump(s, insn) ==
  LET t == s.insn_ptr % 65536
      a == IF t >= 32768 THEN t - 65536 ELSE t
      sum == a + insn.off
      wrapped == ((sum + 32768) % 65536) - 32768
  IN  IF sum # wrapped /\ build = "debug" THEN Panic(s, "arithmetic overflow")
      ELSE [s EXCEPT !.insn_ptr = wrapped]

branch(s, insn, taken) == IF taken THEN jump(s, insn) ELSE s

\* The functions a caller registers in the model: one that packs the low byte
\* of each of its five arguments, and one that tells its first argument from
\* its fifth.
HelperFns == {"pack_bytes", "sub_1_5"}

apply_helper(f, a1, a2, a3, a4, a5) ==
  CASE f = "pack_bytes" -> <<a5[1], a4[1], a3[1], a2[1], a1[1], 0, 0, 0>>
    [] f = "sub_1_5" -> wrapping_sub(a1, a5)

\* A CALL arm that hands the helper r5..r1.
call_reversed(s, insn) ==
  IF insn.imm \in DOMAIN helpers
  THEN LET r == s.reg
           s1 == [s EXCEPT !.call = [ key |-> insn.imm, function |-> helpers[insn.imm],
                                      args |-> <<r[5], r[4], r[3], r[2], r[1]>> ]]
       IN  WriteReg(s1, 0, apply_helper(helpers[insn.imm], r[5], r[4], r[3], r[2], r[1]))
  ELSE Panic(s, "unknown helper")

\* The CALL arm.
call(s, insn) ==
  IF insn.imm \in DOMAIN helpers
  THEN LET r == s.reg
           s1 == [s EXCEPT !.call = [ key |-> insn.imm, function |-> helpers[insn.imm],
                                      args |-> <<r[1], r[2], r[3], r[4], r[5]>> ]]
       IN  WriteReg(s1, 0, apply_helper(helpers[insn.imm], r[1], r[2], r[3], r[4], r[5]))
  ELSE Panic(s, "unknown helper")

ExitResult(s) == s.reg[0]

\* The EXIT arm: return reg[0].
exit(s) == [s EXCEPT !.pc = "returned", !.result = ExitResult(s), !.stop = "exit"]

\* An LD_DW_IMM arm that sign-extends its own immediate.
ld_dw_imm_low_signed(s, insn) ==
  IF s.insn_ptr >= NumSlots(prog) THEN Panic(s, "index out of bounds")
  ELSE WriteReg([s EXCEPT !.insn_ptr = s.insn_ptr + 1], insn.dst,
         wrapping_add(SignExtend(insn.imm, 8),
                      Shl(SignExtend(get_insn(prog, s.insn_ptr).imm, 8), 32)))

\* The LD_DW_IMM arm: next_insn is the slot insn_ptr now names (get_insn
\* panics past the end of the program), insn_ptr moves on once more, and
\*   reg[_dst] = ((insn.imm as u32) as u64) + ((next_insn.imm as u64) << 32).
ld_dw_imm(s, insn) ==
  IF s.insn_ptr >= NumSlots(prog) THEN Panic(s, "index out of bounds")
  ELSE WriteReg([s EXCEPT !.insn_ptr = s.insn_ptr + 1], insn.dst,
         wrapping_add(ZeroExtend(insn.imm, 8),
                      Shl(SignExtend(get_insn(prog, s.insn_ptr).imm, 8), 32)))

\* An arm that does nothing.
unimplemented_is_skipped(s) == s

\* unimplemented!(): a panic.
unimplemented(s) == Panic(s, "not implemented")

\* The body of the `match insn.opc` of prog_exec, applied to the locals s
\* (insn_ptr already incremented).  Indexing reg with a register number
\* above 10 panics.
dispatch(s, insn) ==
  LET o == insn.opc
      d == insn.dst
      D == s.reg[insn.dst]
      S == s.reg[insn.src]
      imm == insn.imm
      I == SignExtend(insn.imm, 8)
      D32 == Trunc(s.reg[insn.dst], 4)
      S32 == Trunc(s.reg[insn.src], 4)
      set(v) == WriteReg(s, d, v)
      sx(v) == WriteReg(s, d, SignExtend(v, 8))
      zx(v) == WriteReg(s, d, ZeroExtend(v, 8))
  IN
  IF o \in RegSourceOps /\ insn.src > 10 THEN Panic(s, "index out of bounds")
  ELSE IF o \in (RegDestOps \ LoadOps) /\ d > 10 THEN Panic(s, "index out of bounds")
  ELSE
  CASE o \in UnimplementedOps -> unimplemented(s)
    [] o = ebpf.LD_DW_IMM  -> ld_dw_imm(s, insn)
    [] o = ebpf.LD_B_REG   -> load(s, insn, 1)
    [] o = ebpf.LD_H_REG   -> load(s, insn, 2)
    [] o = ebpf.LD_W_REG   -> load(s, insn, 4)
    [] o = ebpf.LD_DW_REG  -> load(s, insn, 8)
    [] o = ebpf.ST_B_IMM   -> store(s, insn, 1, I)
    [] o = ebpf.ST_H_IMM   -> store(s, insn, 2, I)
    [] o = ebpf.ST_W_IMM   -> store(s, insn, 4, I)
    [] o = ebpf.ST_DW_IMM  -> store(s, insn, 8, I)
    [] o = ebpf.ST_B_REG   -> store(s, insn, 1, S)
    [] o = ebpf.ST_H_REG   -> store(s, insn, 2, S)
    [] o = ebpf.ST_W_REG   -> store(s, insn, 4, S)
    [] o = ebpf.ST_DW_REG  -> store(s, insn, 8, S)
    \* BPF_ALU class: an i32 result is sign-extended by `as u64`, a u32
    \* result is zero-extended.
    [] o = ebpf.ADD32_IMM  -> sx(wrapping_add(D32, imm))
    [] o = ebpf.ADD32_REG  -> sx(wrapping_add(D32, S32))
    [] o = ebpf.SUB32_IMM  -> sx(wrapping_sub(D32, imm))
    [] o = ebpf.SUB32_REG  -> sx(wrapping_sub(D32, S32))
    [] o = ebpf.MUL32_IMM  -> sx(wrapping_mul(D32, imm))
    [] o = ebpf.MUL32_REG  -> sx(wrapping_mul(D32, S32))
    [] o = ebpf.DIV32_IMM  -> checked_div(s, d, D32, imm, "div")
    [] o = ebpf.DIV32_REG  -> div_reg(s, insn, 4, "div")
    [] o = ebpf.OR32_IMM   -> zx(BitOr(D32, imm))
    [] o = ebpf.OR32_REG   -> zx(BitOr(D32, S32))
    [] o = ebpf.AND32_IMM  -> zx(BitAnd(D32, imm))
    [] o = ebpf.AND32_REG  -> zx(BitAnd(D32, S32))
    [] o = ebpf.LSH32_IMM  -> zx(shift32(D32, "shl", imm))
    [] o = ebpf.LSH32_REG  -> zx(shift32(D32, "shl", S32))
    [] o = ebpf.RSH32_IMM  -> zx(shift32(D32, "shr", imm))
    [] o = ebpf.RSH32_REG  -> zx(shift32(D32, "shr", S32))
    [] o = ebpf.NEG32      -> set(BitAnd(SignExtend(wrapping_neg(D32), 8), U32MAX))
    [] o = ebpf.MOD32_IMM  -> checked_div(s, d, D32, imm, "rem")
    [] o = ebpf.MOD32_REG  -> div_reg(s, insn, 4, "rem")
    [] o = ebpf.XOR32_IMM  -> zx(BitXor(D32, imm))
    [] o = ebpf.XOR32_REG  -> zx(BitXor(D32, S32))
    [] o = ebpf.MOV32_IMM  -> set(I)
    [] o = ebpf.MOV32_REG  -> zx(S32)
    [] o = ebpf.ARSH32_IMM -> set(BitAnd(SignExtend(shift32(D32, "sar", imm), 8), U32MAX))
    [] o = ebpf.ARSH32_REG -> set(BitAnd(SignExtend(shift32(D32, "sar", S32), 8), U32MAX))
    [] o = ebpf.LE         -> endian_arm(s, insn, "le")
    [] o = ebpf.BE         -> endian_arm(s, insn, "be")
    \* BPF_ALU64 class
    [] o = ebpf.ADD64_IMM  -> set(wrapping_add(D, I))
    [] o = ebpf.ADD64_REG  -> set(wrapping_add(D, S))
    [] o = ebpf.SUB64_IMM  -> set(wrapping_sub(D, I))
    [] o = ebpf.SUB64_REG  -> set(wrapping_sub(D, S))
    [] o = ebpf.MUL64_IMM  -> set(wrapping_mul(D, I))
    [] o = ebpf.MUL64_REG  -> set(wrapping_mul(D, S))
    [] o = ebpf.DIV64_IMM  -> checked_div(s, d, D, I, "div")
    [] o = ebpf.DIV64_REG  -> div_reg(s, insn, 8, "div")
    [] o = ebpf.OR64_IMM   -> set(BitOr(D, I))
    [] o = ebpf.OR64_REG   -> set(BitOr(D, S))
    [] o = ebpf.AND64_IMM  -> set(BitAnd(D, I))
    [] o = ebpf.AND64_REG  -> set(BitAnd(D, S))
    [] o = ebpf.LSH64_IMM  -> shift64(s, d, "shl", I)
    [] o = ebpf.LSH64_REG  -> shift64(s, d, "shl", S)
    [] o = ebpf.RSH64_IMM  -> shift64(s, d, "shr", I)
    [] o = ebpf.RSH64_REG  -> shift64(s, d, "shr", S)
    [] o = ebpf.NEG64      -> neg64(s, d)
    [] o = ebpf.MOD64_IMM  -> checked_div(s, d, D, I, "rem")
    [] o = ebpf.MOD64_REG  -> div_reg(s, insn, 8, "rem")
    [] o = ebpf.XOR64_IMM  -> set(BitXor(D, I))
    [] o = ebpf.XOR64_REG  -> set(BitXor(D, S))
    [] o = ebpf.MOV64_IMM  -> set(I)
    [] o = ebpf.MOV64_REG  -> set(S)
    [] o = ebpf.ARSH64_IMM -> shift64(s, d, "sar", imm)
    [] o = ebpf.ARSH64_REG -> shift64(s, d, "sar", S)
    \* BPF_JMP class
    [] o = ebpf.JA         -> jump(s, insn)
    [] o = ebpf.JEQ_IMM    -> branch(s, insn, D = I)
    [] o = ebpf.JEQ_REG    -> branch(s, insn, D = S)
    [] o = ebpf.JGT_IMM    -> branch(s, insn, ULt(I, D))
    [] o = ebpf.JGT_REG    -> branch(s, insn, ULt(S, D))
    [] o = ebpf.JGE_IMM    -> branch(s, insn, ULe(I, D))
    [] o = ebpf.JGE_REG    -> branch(s, insn, ULe(S, D))
    [] o = ebpf.JSET_IMM   -> branch(s, insn, BitAnd(D, I) # Zeros(8))
    [] o = ebpf.JSET_REG   -> branch(s, insn, BitAnd(D, S) # Zeros(8))
    [] o = ebpf.JNE_IMM    -> branch(s, insn, D # I)
    [] o = ebpf.JNE_REG    -> branch(s, insn, D # S)
    [] o = ebpf.JSGT_IMM   -> branch(s, insn, SLt(I, D))
    [] o = ebpf.JSGT_REG   -> branch(s, insn, SLt(S, D))
    [] o = ebpf.JSGE_IMM   -> branch(s, insn, SLe(I, D))
    [] o = ebpf.JSGE_REG   -> branch(s, insn, SLe(S, D))
    [] o = ebpf.CALL       -> call(s, insn)
    [] o = ebpf.EXIT       -> exit(s)
    [] OTHER               -> Panic(s, "unreachable")

\* ------------------------------------------------------------------------
\* Inputs
\* ------------------------------------------------------------------------

Kinds == {"mbuff", "fixed", "raw", "nodata"}

Builds == {"debug", "release"}

Endians == {"little", "big"}

\* The packets a caller passes: none, or 8 bytes.
Packets == {<<>>, <<170, 187, 17, 34, 204, 221, 238, 255>>}

\* Where the allocator puts the three regions.  In the second layout the
\* packet starts where the stack ends.
Layouts ==
  { [ mbuff |-> <<0, 16, 0, 0, 85, 85, 0, 0>>,
      mem   |-> <<0, 32, 0, 0, 85, 85, 0, 0>>,
      stack |-> <<0, 208, 255, 255, 255, 127, 0, 0>> ],
    [ mbuff |-> <<0, 16, 0, 0, 0, 0, 0, 0>>,
      mem   |-> <<0, 50, 0, 0, 0, 0, 0, 0>>,
      stack |-> <<0, 48, 0, 0, 0, 0, 0, 0>> ] }

\* The (data_offset, data_end_offset) pairs given to the fixed facade.
OffsetPairs == {<<0, 8>>, <<16, 0>>}

\* The helpers a caller registers, with their keys: 1 and 0xFFFFFFFF.
Registrations == {<<U32(1), "pack_bytes">>, <<Ones(4), "sub_1_5">>}

\* The (data_offset, data_end_offset) pairs of the executions of the fixed
\* facade: the two above, and two whose 8-byte fields overlap, the first of
\* them the pair of the documentation of EbpfVmFixedMbuff::set_prog.
FixedPairs == OffsetPairs \cup {<<0, 0>>, <<4, 0>>}

\* Pairs of offsets of every size: small ones, usize::MAX (-1) with 0,
\* 2^64 - 8 twice, and 2^64 - 20 with 0.
WideOffsetPairs == OffsetPairs \cup {<<-1, 0>>, <<-8, -8>>, <<0, -20>>}

\* The packets of two calls in flight: the two above and a third, so that
\* two calls can be told by their packets.
ConcurrentPackets == Packets \cup {<<1, 2, 3, 4, 5, 6, 7, 8>>}

\* Bounds on the calls made in one behaviour; MaxLifeRegister bounds the
\* register_helper calls of the life-cycle specification.
MaxExec == 2

MaxSetProg == 1

MaxRegister == 2

MaxLifeRegister == 1

\* ------------------------------------------------------------------------
\* The facades
\* ------------------------------------------------------------------------

\* An offset is a usize.  One within reach of 2^64 is held as a negative
\* number: -k stands for 2^64 - k.  The order of two usize held this way:
usize_ge(x, y) == IF (x < 0) = (y < 0) THEN x >= y ELSE x < 0

\* The closure get_buff_len of EbpfVmFixedMbuff::new and ::set_prog, its sum
\* wrapped: from 2^64 - 8 on, x + 8 is x + 8 - 2^64.
get_buff_len(x, y) == IF usize_ge(x, y) THEN x + 8 ELSE y + 8

\* The panic that `vec![0u8; get_buff_len(x, y)]` ends in, "" if none: the
\* sum overflows in a build that checks arithmetic; a length past isize::MAX
\* is more than a Vec holds.
buffer_fault(b, x, y) ==
  LET big == IF usize_ge(x, y) THEN x ELSE y
  IN  IF big < -8 THEN "capacity overflow"
      ELSE IF big < 0 /\ b = "debug" THEN "arithmetic overflow"
      ELSE ""

\* `offset + 8 > l` of EbpfVmFixedMbuff::prog_exec for a buffer of l bytes,
\* the sum wrapped.
offset_past(o, l) == o + 8 < 0 \/ o + 8 > l

\* as_ptr() of a Vec: where the allocator put it, or, for an empty Vec that
\* owns no allocation, the dangling pointer 1.
as_ptr(v, where) == IF Len(v) = 0 THEN U64(1) ELSE where

NoAccess ==
  [type |-> "none", addr |-> Zeros(8), len |-> 0, insn_ptr |-> 0, verdict |-> "none"]

NoCall == [key |-> <<>>, function |-> "none", args |-> <<>>]

NoLast == [idx |-> -1, insn |-> [opc |-> -1, dst |-> 0, src |-> 0, off |-> 0, imm |-> Zeros(4)]]

IdleRegs == [i \in 0..10 |-> Zeros(8)]

\* What the history keeps of a call: the bytes it was given, and, once it is
\* over, how it ended and the bytes it left.
NoGiven == [mem |-> <<>>, mbuff |-> <<>>, by |-> "none"]

NoPrev ==
  [ given |-> NoGiven, pc |-> "none", result |-> Zeros(8), fault |-> "",
    mem |-> <<>>, mbuff |-> <<>>, prog |-> <<>> ]

\* The `jit` field of a VM on which jit_compile was not called: the function
\* no_jit of EbpfVmMbuff::new.
NoJit ==
  [ name |-> "no_jit", prog |-> <<>>, helpers |-> [key \in {} |-> "none"],
    use_mbuff |-> FALSE, update_data_ptr |-> FALSE ]

\* No second call: what `other` holds while at most one call is in flight.
NoOther ==
  [ reg |-> IdleRegs, insn_ptr |-> 0, stack |-> <<>>, mem |-> <<>>, mbuff |-> <<>>,
    base |-> [r \in RegionNames |-> Zeros(8)], pc |-> "idle", result |-> Zeros(8),
    fault |-> "", given |-> NoGiven ]

\* The fields of a VM for the bytes p, as EbpfVm*::new fills them: no helper
\* is registered, no call is running.
VmFields(k, b, e, p, offs) ==
  /\ kind = k
  /\ build = b
  /\ endian = e
  /\ prog = p
  /\ helpers = [key \in {} |-> "none"]
  /\ jit = NoJit
  /\ data_offset = IF k = "fixed" THEN offs[1] ELSE 0
  /\ data_end_offset = IF k = "fixed" THEN offs[2] ELSE 0
  /\ buffer = IF k = "fixed" THEN Zeros(get_buff_len(offs[1], offs[2])) ELSE <<>>
  /\ pc = "idle"
  /\ reg = IdleRegs
  /\ insn_ptr = 0
  /\ stack = <<>>
  /\ mem = <<>>
  /\ mbuff = <<>>
  /\ base = [r \in RegionNames |-> Zeros(8)]
  /\ result = Zeros(8)
  /\ fault = ""
  /\ calls = [exec |-> 0, set_prog |-> 0, register |-> 0, jit_compile |-> 0]
  /\ other = NoOther
  /\ hist = [ access |-> NoAccess, call |-> NoCall, stop |-> "none", last |-> NoLast,
              at_entry |-> FALSE, op |-> "new", accepted |-> p, log |-> <<>>,
              loaded |-> 0, given |-> NoGiven, prev |-> NoPrev ]

\* The state of a VM that EbpfVm*::new returned for program p: the verifier
\* accepted p, and the fixed facade could allocate its buffer.
NewVm(k, b, e, p, offs) ==
  /\ check(p) = "ok"
  /\ k = "fixed" => buffer_fault(b, offs[1], offs[2]) = ""
  /\ VmFields(k, b, e, p, offs)

\* ebpf::get_insn applied to slot i of the bytes handed to new, as the
\* verifier applies it to each slot before it gives its verdict.
decode_slot(i) ==
  /\ hist.op = "new"
  /\ ebpf.INSN_SIZE * (i + 1) <= prog_len(prog)
  /\ hist' = [hist EXCEPT !.op = "decode",
                          !.last = [idx |-> i, insn |-> get_insn(prog, i)]]
  /\ UNCHANGED <<kind, build, endian, jit, prog, helpers, data_offset, data_end_offset,
                 buffer, pc, reg, insn_ptr, stack, mem, mbuff, base, result, fault,
                 calls, other>>

\* A set_prog that verifies and then keeps the old program.
keep_prog(p) == prog

\* EbpfVmMbuff::set_prog: the verifier first, then the assignment.
mbuff_set_prog(p) == IF check(p) = "ok" THEN p ELSE prog

\* A set_prog that builds the VM anew for an accepted program, as new does:
\* an empty helper table and the no_jit function.
set_prog_anew(p, offs) ==
  /\ pc = "idle"
  /\ calls.set_prog < MaxSetProg
  /\ calls' = [calls EXCEPT !.set_prog = @ + 1]
  /\ buffer' = IF kind = "fixed" THEN Zeros(get_buff_len(offs[1], offs[2])) ELSE buffer
  /\ data_offset' = IF kind = "fixed" THEN offs[1] ELSE data_offset
  /\ data_end_offset' = IF kind = "fixed" THEN offs[2] ELSE data_end_offset
  /\ prog' = mbuff_set_prog(p)
  /\ helpers' = IF check(p) = "ok" THEN [key \in {} |-> "none"] ELSE helpers
  /\ jit' = IF check(p) = "ok" THEN NoJit ELSE jit
  /\ fault' = IF check(p) = "ok" THEN "" ELSE "verifier: " \o check(p)
  /\ hist' = [hist EXCEPT !.op = "set_prog", !.loaded = Len(hist.log),
                          !.accepted = IF check(p) = "ok" THEN p ELSE @]
  /\ UNCHANGED <<kind, build, endian, pc, reg, insn_ptr, stack, mem, mbuff, base,
                 result, other>>

\* set_prog of every facade.  The fixed facade replaces its buffer and its
\* offsets, then calls the parent's set_prog; the others call it at once.
\* A rejected program makes the call panic where the verifier ran; a buffer
\* that cannot be allocated makes it panic before anything is assigned.
set_prog(p, offs) ==
  /\ pc = "idle"
  /\ calls.set_prog < MaxSetProg
  /\ calls' = [calls EXCEPT !.set_prog = @ + 1]
  /\ IF kind = "fixed" /\ buffer_fault(build, offs[1], offs[2]) # ""
     THEN /\ fault' = buffer_fault(build, offs[1], offs[2])
          /\ hist' = [hist EXCEPT !.op = "set_prog", !.loaded = Len(hist.log)]
          /\ UNCHANGED <<buffer, data_offset, data_end_offset, prog>>
     ELSE /\ buffer' = IF kind = "fixed" THEN Zeros(get_buff_len(offs[1], offs[2]))
                       ELSE buffer
          /\ data_offset' = IF kind = "fixed" THEN offs[1] ELSE data_offset
          /\ data_end_offset' = IF kind = "fixed" THEN offs[2] ELSE data_end_offset
          /\ prog' = mbuff_set_prog(p)
          /\ fault' = IF check(p) = "ok" THEN "" ELSE "verifier: " \o check(p)
          /\ hist' = [hist EXCEPT !.op = "set_prog", !.loaded = Len(hist.log),
                                  !.accepted = IF check(p) = "ok" THEN p ELSE @]
  /\ UNCHANGED <<kind, build, endian, jit, helpers, pc, reg, insn_ptr, stack, mem, mbuff,
                 base, result, other>>

\* An insert that keeps the function a key already has.
insert_keeps_old(h, key, function) ==
  [k \in DOMAIN h \cup {key} |-> IF k \in DOMAIN h THEN h[k] ELSE function]

\* HashMap::insert: the key gets the function, whether or not it had one.
insert(h, key, function) ==
  [k \in DOMAIN h \cup {key} |-> IF k = key THEN function ELSE h[k]]

\* register_helper of every facade: self.helpers.insert(key, function).
register_helper(key, function) ==
  /\ pc = "idle"
  /\ calls.register < MaxRegister
  /\ calls' = [calls EXCEPT !.register = @ + 1]
  /\ helpers' = insert(helpers, key, function)
  /\ fault' = ""
  /\ hist' = [hist EXCEPT !.op = "register_helper",
                          !.log = Append(@, <<key, function>>)]
  /\ UNCHANGED <<kind, build, endian, jit, prog, data_offset, data_end_offset, buffer,
                 pc, reg, insn_ptr, stack, mem, mbuff, base, result, other>>

\* A register file whose r1 prefers the packet to the metadata buffer.
entry_reg_packet_first(mb, m, where) ==
  [i \in 0..10 |->
     IF i = 10 THEN wrapping_add(where.stack, U64(ebpf.STACK_SIZE))
     ELSE IF i = 1 /\ Len(m) > 0 THEN as_ptr(m, where.mem)
     ELSE IF i = 1 /\ Len(mb) > 0 THEN as_ptr(mb, where.mbuff)
     ELSE Zeros(8)]

\* The register file prog_exec starts from.
entry_reg(mb, m, where) ==
  [i \in 0..10 |->
     IF i = 10 THEN wrapping_add(where.stack, U64(ebpf.STACK_SIZE))
     ELSE IF i = 1 /\ Len(mb) > 0 THEN as_ptr(mb, where.mbuff)
     ELSE IF i = 1 /\ Len(m) > 0 THEN as_ptr(m, where.mem)
     ELSE Zeros(8)]

\* EbpfVmFixedMbuff::prog_exec's two writes into its buffer.
fixed_buffer(buf, m, where) ==
  [i \in 1..Len(buf) |->
     IF i > data_end_offset /\ i <= data_end_offset + 8
       THEN ToMem(wrapping_add(as_ptr(m, where.mem), U64(Len(m))))[i - data_end_offset]
     ELSE IF i > data_offset /\ i <= data_offset + 8
       THEN ToMem(as_ptr(m, where.mem))[i - data_offset]
     ELSE buf[i]]

\* The metadata buffer each facade hands to EbpfVmMbuff::prog_exec.
facade_mbuff(mb, m, where) ==
  CASE kind = "mbuff" -> mb
    [] kind = "fixed" -> fixed_buffer(buffer, m, where)
    [] kind = "raw" -> <<>>
    [] kind = "nodata" -> <<>>

\* A metadata buffer as the caller of the mbuff facade builds it: empty, or
\* the packet's start and end addresses at offsets 0 and 8.
CallerMbuffs(m, where) ==
  { <<>>,
    ToMem(as_ptr(m, where.mem)) \o ToMem(wrapping_add(as_ptr(m, where.mem), U64(Len(m)))) }

\* An allocation that is not zeroed: it holds what was last stored there.
stack_with_leftovers == Zeros(ebpf.STACK_SIZE - 8) \o U64(7)

\* vec![0u8; ebpf::STACK_SIZE]: the stack of one prog_exec call.
new_stack == Zeros(ebpf.STACK_SIZE)

\* prog_exec of every facade, up to the first instruction: the facade builds
\* the metadata buffer, EbpfVmMbuff::prog_exec allocates the stack and sets
\* the registers.  The fixed facade first tests its offsets against the
\* length of its buffer; an offset that passes the test and is within 8 of
\* 2^64 makes it write before the start of the buffer (undefined behaviour).
prog_exec(m, mb, where) ==
  /\ pc = "idle"
  /\ calls.exec < MaxExec
  /\ kind = "nodata" => m = <<>>
  /\ mb \in (IF kind = "mbuff" THEN CallerMbuffs(m, where) ELSE {<<>>})
  /\ calls' = [calls EXCEPT !.exec = @ + 1]
  /\ IF kind = "fixed" /\ build = "debug"
          /\ (data_offset \in -8..-1
              \/ (~offset_past(data_offset, Len(buffer)) /\ data_end_offset \in -8..-1))
     THEN /\ pc' = "panicked"
          /\ fault' = "arithmetic overflow"
          /\ UNCHANGED <<reg, insn_ptr, stack, mem, mbuff, base, buffer>>
     ELSE IF kind = "fixed" /\ (\/ offset_past(data_offset, Len(buffer))
                                \/ offset_past(data_end_offset, Len(buffer)))
     THEN /\ pc' = "panicked"
          /\ fault' = "buffer too small"
          /\ UNCHANGED <<reg, insn_ptr, stack, mem, mbuff, base, buffer>>
     ELSE IF kind = "fixed" /\ (data_offset < 0 \/ data_end_offset < 0)
     THEN /\ pc' = "ub"
          /\ fault' = ""
          /\ UNCHANGED <<reg, insn_ptr, stack, mem, mbuff, base, buffer>>
     ELSE /\ pc' = "running"
          /\ fault' = ""
          /\ mem' = m
          /\ mbuff' = facade_mbuff(mb, m, where)
          /\ buffer' = IF kind = "fixed" THEN mbuff' ELSE buffer
          /\ stack' = new_stack
          /\ base' = [ mbuff |-> as_ptr(mbuff', where.mbuff),
                       mem |-> as_ptr(m, where.mem),
                       stack |-> where.stack ]
          /\ reg' = entry_reg(mbuff', m, where)
          /\ insn_ptr' = 0
  /\ result' = Zeros(8)
  /\ hist' = [hist EXCEPT !.op = "prog_exec", !.at_entry = (pc' = "running"),
                          !.access = NoAccess, !.call = NoCall, !.stop = "none",
                          !.last = NoLast,
                          !.given = [mem |-> m, mbuff |-> mbuff', by |-> "prog_exec"]]
  /\ UNCHANGED <<kind, build, endian, jit, prog, helpers, data_offset, data_end_offset,
                 other>>

\* The test of prog_exec's while loop: insn_ptr * INSN_SIZE < prog.len().
\* A negative insn_ptr stands for a usize near 2^64, whose product with 8
\* overflows: "overflow" in a build that checks arithmetic, and a wrapped
\* product, still near 2^64, otherwise.
loop_test ==
  IF insn_ptr < 0 THEN (IF build = "debug" THEN "overflow" ELSE "end")
  ELSE IF insn_ptr * ebpf.INSN_SIZE < prog_len(prog) THEN "body"
  ELSE "end"

Assign(s) ==
  /\ reg' = s.reg
  /\ insn_ptr' = s.insn_ptr
  /\ stack' = s.stack
  /\ mem' = s.mem
  /\ mbuff' = s.mbuff
  /\ buffer' = IF kind = "fixed" THEN s.mbuff ELSE buffer
  /\ pc' = s.pc
  /\ result' = s.result
  /\ fault' = s.fault

\* One turn of the loop: decode, increment insn_ptr, dispatch.  Undefined
\* behaviour is the whole process's: a call that waits is in it too.
Step ==
  /\ pc = "running"
  /\ loop_test = "body"
  /\ \E insn \in {get_insn(prog, insn_ptr)} :
       \E out \in {dispatch([Locals EXCEPT !.insn_ptr = insn_ptr + 1,
                                           !.access = NoAccess, !.call = NoCall], insn)} :
         /\ Assign(out)
         /\ other' = IF out.pc = "ub" /\ other.pc = "running"
                     THEN [other EXCEPT !.pc = "ub"] ELSE other
         /\ hist' = [hist EXCEPT !.op = "step", !.at_entry = FALSE,
                                 !.access = out.access, !.call = out.call,
                                 !.stop = out.stop,
                                 !.last = [idx |-> insn_ptr, insn |-> insn]]
  /\ UNCHANGED <<kind, build, endian, jit, prog, helpers, data_offset, data_end_offset,
                 base, calls>>

\* A loop end that returns r0.
end_returns_r0(s) == s.reg[0]

\* The value of `return 0` after the loop.
EndResult(s) == Zeros(8)

\* The loop ends without an EXIT: `return 0` after the loop.
LoopEnd ==
  /\ pc = "running"
  /\ loop_test # "body"
  /\ IF loop_test = "overflow"
     THEN Assign(Panic(Locals, "arithmetic overflow"))
     ELSE Assign([Locals EXCEPT !.pc = "returned", !.result = EndResult(Locals)])
  /\ hist' = [hist EXCEPT !.op = "end", !.at_entry = FALSE,
                          !.stop = IF loop_test = "overflow" THEN "none" ELSE "end"]
  /\ UNCHANGED <<kind, build, endian, jit, prog, helpers, data_offset, data_end_offset,
                 base, calls, other>>

\* The call is over (it returned or panicked): its locals and the caller's
\* buffers are gone; the VM is as the call left it.  The history keeps how
\* the call ended if asked to.
Finish(keep) ==
  /\ pc \in {"returned", "panicked"}
  /\ pc' = "idle"
  /\ reg' = IdleRegs
  /\ insn_ptr' = 0
  /\ stack' = <<>>
  /\ mem' = <<>>
  /\ mbuff' = <<>>
  /\ base' = [r \in RegionNames |-> Zeros(8)]
  /\ result' = Zeros(8)
  /\ fault' = ""
  /\ hist' = [hist EXCEPT !.op = "return", !.at_entry = FALSE, !.access = NoAccess,
                          !.call = NoCall, !.stop = "none", !.last = NoLast,
                          !.given = NoGiven,
                          !.prev = IF keep
                                   THEN [ given |-> hist.given, pc |-> pc,
                                          result |-> result, fault |-> fault,
                                          mem |-> mem, mbuff |-> mbuff, prog |-> prog ]
                                   ELSE @]
  /\ UNCHANGED <<kind, build, endian, jit, prog, helpers, data_offset, data_end_offset,
                 buffer, calls, other>>

Return == Finish(FALSE)

\* jit::compile(&prog, &helpers, use_mbuff, update_data_ptr): the function it
\* returns, named by what it was compiled from.
compile(p, h, use_mbuff, update_data_ptr) ==
  [ name |-> "compiled", prog |-> p, helpers |-> h, use_mbuff |-> use_mbuff,
    update_data_ptr |-> update_data_ptr ]

\* jit_compile of every facade: the mbuff facade compiles with (true, false),
\* the fixed facade with (true, true), the raw facade with (false, false),
\* and the no-data facade calls the raw facade's.
jit_compile ==
  /\ pc = "idle"
  /\ jit' = compile(prog, helpers, kind \in {"mbuff", "fixed"}, kind = "fixed")
  /\ calls' = [calls EXCEPT !.jit_compile = 1]
  /\ fault' = ""
  /\ hist' = [hist EXCEPT !.op = "jit_compile"]
  /\ UNCHANGED <<kind, build, endian, prog, helpers, data_offset, data_end_offset,
                 buffer, pc, reg, insn_ptr, stack, mem, mbuff, base, result, other>>

\* A no_jit that returns 0.
no_jit_returns(s) == [s EXCEPT !.pc = "returned", !.result = Zeros(8)]

\* The function `jit` holds after new: it panics.
no_jit(s) == Panic(s, "program has not been JIT-compiled")

RECURSIVE machine_code(_, _)
\* The function compiled from the bytes p, called with the registers and
\* buffers s: it ends as the interpreter ends on p.  It stands for programs
\* that work on registers alone (no LD_DW_IMM, no CALL, no access to memory).
machine_code(p, s) ==
  IF s.pc # "running" THEN s
  ELSE IF s.insn_ptr >= NumSlots(p)
    THEN [s EXCEPT !.pc = "returned", !.result = EndResult(s)]
  ELSE machine_code(p, dispatch([s EXCEPT !.insn_ptr = @ + 1], get_insn(p, s.insn_ptr)))

\* The metadata buffer after the call of self.jit: the caller's, or the
\* fixed facade's own, in which the compiled function stores the packet's
\* start and end (no_jit stores nothing).
jit_mbuff(mb, m, where) ==
  IF kind = "fixed" /\ jit.name = "no_jit" THEN buffer ELSE facade_mbuff(mb, m, where)

\* prog_exec_jit of every facade: the arguments are built as for prog_exec
\* and self.jit is called with them; the call is over when it returns.
prog_exec_jit(m, mb, where) ==
  /\ pc = "idle"
  /\ calls.exec < MaxExec
  /\ kind = "nodata" => m = <<>>
  /\ mb \in (IF kind = "mbuff" THEN CallerMbuffs(m, where) ELSE {<<>>})
  /\ calls' = [calls EXCEPT !.exec = @ + 1]
  /\ base' = [ mbuff |-> as_ptr(jit_mbuff(mb, m, where), where.mbuff),
               mem |-> as_ptr(m, where.mem),
               stack |-> where.stack ]
  /\ \E args \in {[Locals EXCEPT !.reg = entry_reg(jit_mbuff(mb, m, where), m, where),
                                  !.insn_ptr = 0, !.stack = new_stack, !.mem = m,
                                  !.mbuff = jit_mbuff(mb, m, where),
                                  !.pc = "running", !.result = Zeros(8), !.fault = "",
                                  !.access = NoAccess, !.call = NoCall,
                                  !.stop = "none"]} :
       \E out \in {IF jit.name = "no_jit" THEN no_jit(args)
                    ELSE machine_code(jit.prog, args)} :
         /\ Assign(out)
         /\ hist' = [hist EXCEPT !.op = "prog_exec_jit", !.at_entry = FALSE,
                                 !.access = NoAccess, !.call = NoCall,
                                 !.stop = out.stop, !.last = NoLast,
                                 !.given = [mem |-> m, mbuff |-> args.mbuff,
                                            by |-> "prog_exec_jit"]]
  /\ UNCHANGED <<kind, build, endian, prog, helpers, jit, data_offset,
                 data_end_offset, other>>

ReturnNoted == Finish(TRUE)

\* The call in flight that the interpreter is working on, as `other` holds a
\* call that waits.
ThisCall ==
  [ reg |-> reg, insn_ptr |-> insn_ptr, stack |-> stack, mem |-> mem,
    mbuff |-> mbuff, base |-> base, pc |-> pc, result |-> result, fault |-> fault,
    given |-> hist.given ]

\* The thread of the call that waits is scheduled, the one that ran waits.
\* Two prog_exec(&self, ..) calls on one VM can be in flight at once; the
\* scheduler can switch between them after any instruction, or leave the
\* one that ran waiting while a second call is made.  Each call resumes with
\* its own locals (reg, insn_ptr, stack) and arguments (mem, mbuff).
Switch ==
  /\ pc \in {"running", "ub"} \/ (pc = "idle" /\ other.pc # "idle")
  /\ other.pc = "idle" => calls.exec < MaxExec
  /\ reg' = other.reg
  /\ insn_ptr' = other.insn_ptr
  /\ stack' = other.stack
  /\ mem' = other.mem
  /\ mbuff' = other.mbuff
  /\ base' = other.base
  /\ pc' = other.pc
  /\ result' = other.result
  /\ fault' = other.fault
  /\ hist' = [hist EXCEPT !.op = "switch", !.at_entry = FALSE, !.access = NoAccess,
                          !.call = NoCall, !.stop = "none", !.last = NoLast,
                          !.given = other.given]
  /\ other' = ThisCall
  /\ UNCHANGED <<kind, build, endian, jit, prog, helpers, data_offset, data_end_offset,
                 buffer, calls>>

\* What the message of the panic that ended the call carries: the number it
\* prints as the instruction (-1 if it prints none) and the operand it prints
\* (<<>> if it prints none).  check_mem prints the insn_ptr it was passed and
\* the address; the CALL arm prints the key; "Error: division by 0", the
\* panics of the language (a division by zero, an overflow, an index out of
\* bounds), unreachable!() and unimplemented!() print neither.
Diagnostic ==
  CASE fault = "out of bounds" ->
         [insn |-> hist.access.insn_ptr, operand |-> hist.access.addr]
    [] fault = "unknown helper" -> [insn |-> -1, operand |-> hist.last.insn.imm]
    [] OTHER -> [insn |-> -1, operand |-> <<>>]

\* ------------------------------------------------------------------------
\* Programs
\* ------------------------------------------------------------------------

\* The 4 bytes of an i32: those of n + 2^32 for a negative n.
I32(n) ==
  IF n < 0 THEN [NatToBytes((n + 2147483647) + 1, 4) EXCEPT ![4] = @ + 128]
  ELSE NatToBytes(n, 4)

\* The i32 that 4 bytes hold.
I32Value(b) ==
  b[1] + 256 * b[2] + 65536 * b[3] + 16777216 * (IF b[4] >= 128 THEN b[4] - 256 ELSE b[4])

Insn(opc, dst, src, off, imm) ==
  [opc |-> opc, dst |-> dst, src |-> src, off |-> off, imm |-> imm]

RECURSIVE Bytes(_)
\* The bytes of a sequence of instructions.
Bytes(insns) ==
  IF insns = <<>> THEN <<>> ELSE encode_insn(Head(insns)) \o Bytes(Tail(insns))

\* The program made of a sequence of instructions: one run.
Asm(insns) == <<[times |-> 1, bytes |-> Bytes(insns)]>>

\* The two slots of `lddw dst, v`.
lddw(dst, v) ==
  << Insn(ebpf.LD_DW_IMM, dst, 0, 0, SubSeq(v, 1, 4)),
     Insn(0, 0, 0, 0, SubSeq(v, 5, 8)) >>

exit_insn == Insn(ebpf.EXIT, 0, 0, 0, Zeros(4))

exit_insn_bytes == <<149, 0, 0, 0, 0, 0, 0, 0>>

\* Operands of the arithmetic programs: a destination whose low half is the
\* largest positive i32 under an upper half of ones, one whose low half is
\* negative; sources -1, 33, 0 and 2^32.
AluDst == { <<255, 255, 255, 127, 255, 255, 255, 255>>, <<1, 0, 0, 128, 1, 0, 0, 0>> }

AluSrc == { Ones(8), U64(33), Zeros(8), <<0, 0, 0, 0, 1, 0, 0, 0>> }

\* lddw r0, x; op r0, imm; exit   and   lddw r0, x; lddw r1, y; op r0, r1; exit
AluPrograms(ops) ==
  { Asm(lddw(0, x) \o <<Insn(o, 0, 0, 0, Trunc(y, 4)), exit_insn>>) :
      o \in ops \ RegSourceOps, x \in AluDst,
      y \in {v \in AluSrc : SignExtend(Trunc(v, 4), 8) = v} }
  \cup
  { Asm(lddw(0, x) \o lddw(1, y) \o <<Insn(o, 0, 1, 0, Zeros(4)), exit_insn>>) :
      o \in ops \cap RegSourceOps, x \in AluDst, y \in AluSrc }

\* Operands of the negations: 2^63, a low half of 2^31 under an upper half
\* that is not zero, 0 and 1.
NegDst == { Zeros(7) \o <<128>>, <<0, 0, 0, 128, 1, 0, 0, 0>>, Zeros(8), U64(1) }

\* lddw r0, x; neg32 r0 or neg64 r0; exit
NegPrograms ==
  { Asm(lddw(0, x) \o <<Insn(o, 0, 0, 0, Zeros(4)), exit_insn>>) :
      o \in {ebpf.NEG32, ebpf.NEG64}, x \in NegDst }

\* The width in bytes of a load or store opcode.
width_of(opc) ==
  CASE (opc \div 8) % 4 = 0 -> 4
    [] (opc \div 8) % 4 = 1 -> 2
    [] (opc \div 8) % 4 = 2 -> 1
    [] (opc \div 8) % 4 = 3 -> 8

\* The offsets tried from r10 (the end of the stack) and from r1 (the start
\* of the metadata buffer or of the packet) for an access of w bytes: the
\* last w bytes, one byte further, the first byte, one byte before it.
StackOffsets(w) == {-w, 1 - w, -ebpf.STACK_SIZE, -ebpf.STACK_SIZE - 1}

DataOffsets(w) == {0, 8 - w, 9 - w, -1}

\* One access of each width at each of these places, and one at the address
\* 2^64 - 1:   [mov64 r1, -1;] lddw r0, v; <access>; exit
MemPrograms ==
  LET v == <<136, 119, 102, 85, 68, 51, 34, 145>>
      imm == <<68, 51, 34, 129>>
      access(o, r, off) ==
        IF o \in LoadOps THEN Insn(o, 0, r, off, Zeros(4))
        ELSE IF o \in StoreRegOps THEN Insn(o, r, 0, off, Zeros(4))
        ELSE Insn(o, r, 0, off, imm)
      body(o, r, off) == lddw(0, v) \o <<access(o, r, off), exit_insn>>
  IN  UNION { { Asm(body(o, 10, off)) : off \in StackOffsets(width_of(o)) }
              \cup { Asm(body(o, 1, off)) : off \in DataOffsets(width_of(o)) }
              \cup { Asm(<<Insn(ebpf.MOV64_IMM, 1, 0, 0, Ones(4))>> \o body(o, 1, 0)) } :
              o \in LoadOps \cup StoreOps }

\* A register store and a load of the same width at the same place, at the
\* top of the stack or where r1 points; r0 holds -1 before the load, and the
\* value stored has the top bit of each of its truncations set:
\*   mov64 r0, -1; lddw r2, 0x91223344d566f788; stx<W> [rb+off], r2;
\*   ldx<W> r0, [rb+off]; exit
RoundTripValue == <<136, 247, 102, 213, 68, 51, 34, 145>>

RoundTripPrograms ==
  { Asm(<<Insn(ebpf.MOV64_IMM, 0, 0, 0, Ones(4))>> \o lddw(2, RoundTripValue)
        \o << Insn(ops[1], at[1], 2, at[2], Zeros(4)),
              Insn(ops[2], 0, at[1], at[2], Zeros(4)), exit_insn >>) :
      ops \in {x \in StoreRegOps \X LoadOps : width_of(x[1]) = width_of(x[2])},
      at \in {<<10, -8>>, <<1, 0>>} }

\* Programs that follow a pointer found in the metadata buffer:
\*   ldxdw r2, [r1+at]; ldxb r0, [r2+off]; exit
PointerPrograms ==
  { Asm(<< Insn(ebpf.LD_DW_REG, 2, 1, at, Zeros(4)),
           Insn(ebpf.LD_B_REG, 0, 2, off, Zeros(4)), exit_insn >>) :
      at \in {0, 8}, off \in {-1, 0} }

\* mov64 r0, 5; then an LD_DW_IMM of 7 into r0 whose second slot is the last
\* slot of the program and carries the opcode of EXIT.
EndsInLddw ==
  Asm(<< Insn(ebpf.MOV64_IMM, 0, 0, 0, U32(5)),
         Insn(ebpf.LD_DW_IMM, 0, 0, 0, U32(7)), exit_insn >>)

\* mov64 r0, 0; then the first slot of an LD_DW_IMM as the last slot of the
\* program: no verifier accepts it.
LddwAtEnd ==
  Asm(<< Insn(ebpf.MOV64_IMM, 0, 0, 0, Zeros(4)),
         Insn(ebpf.LD_DW_IMM, 0, 0, 0, U32(7)) >>)

\* ja +1 over the first slot of an LD_DW_IMM, into its second slot, whose
\* bytes decode as mov64 r10, 1.
IntoSecondSlot ==
  Asm(<< Insn(ebpf.JA, 0, 0, 1, Zeros(4)),
         Insn(ebpf.LD_DW_IMM, 0, 0, 0, U32(3)),
         Insn(ebpf.MOV64_IMM, 10, 0, 0, U32(1)), exit_insn >>)

\* The same second slot, not branched into: r0 = 3 + (1 << 32).
OverSecondSlot ==
  Asm(<< Insn(ebpf.LD_DW_IMM, 0, 0, 0, U32(3)),
         Insn(ebpf.MOV64_IMM, 10, 0, 0, U32(1)), exit_insn >>)

\* mov64 r0, r10; exit
ReturnsR10 == Asm(<<Insn(ebpf.MOV64_REG, 0, 10, 0, Zeros(4)), exit_insn>>)

\* ja +1 over the first slot of an LD_DW_IMM, into its second slot, whose
\* bytes decode as another LD_DW_IMM, of 9 into r0, that takes the final
\* EXIT slot as its second slot.
IntoSecondLddw ==
  Asm(<< Insn(ebpf.JA, 0, 0, 1, Zeros(4)),
         Insn(ebpf.LD_DW_IMM, 0, 0, 0, U32(3)),
         Insn(ebpf.LD_DW_IMM, 0, 0, 0, U32(9)), exit_insn >>)

\* ja +1 into the second slot of `lddw r0, 0x100000003`: the slot holds the
\* high half of the immediate under an opcode byte of zero.
IntoZeroOpcode ==
  Asm(<< Insn(ebpf.JA, 0, 0, 1, Zeros(4)),
         Insn(ebpf.LD_DW_IMM, 0, 0, 0, U32(3)),
         Insn(0, 0, 0, 0, U32(1)), exit_insn >>)

\* ja +1 into a second slot whose bytes decode as mov64 r0, r11.
IntoWildRegister ==
  Asm(<< Insn(ebpf.JA, 0, 0, 1, Zeros(4)),
         Insn(ebpf.LD_DW_IMM, 0, 0, 0, U32(3)),
         Insn(ebpf.MOV64_REG, 0, 11, 0, Zeros(4)), exit_insn >>)

ControlPrograms ==
  {EndsInLddw, IntoSecondSlot, OverSecondSlot, ReturnsR10, IntoZeroOpcode,
   IntoWildRegister}

\* The shift opcodes.
ShiftOps ==
  { ebpf.LSH32_IMM, ebpf.LSH32_REG, ebpf.RSH32_IMM, ebpf.RSH32_REG,
    ebpf.ARSH32_IMM, ebpf.ARSH32_REG, ebpf.LSH64_IMM, ebpf.LSH64_REG,
    ebpf.RSH64_IMM, ebpf.RSH64_REG, ebpf.ARSH64_IMM, ebpf.ARSH64_REG }

\* Shifts by 1, 31, 56, 63 and 64, and the end of the program of the
\* documentation of EbpfVmFixedMbuff, which extends the sign of a byte:
\*   lddw r0, x; op r0, k; exit     lddw r0, x; lddw r1, k; op r0, r1; exit
\*   lddw r0, b; lsh64 r0, 56; arsh64 r0, 56; exit       for b = 0xdd, 0x27
ShiftPrograms ==
  { Asm(lddw(0, x) \o <<Insn(o, 0, 0, 0, U32(k)), exit_insn>>) :
      o \in ShiftOps \ RegSourceOps, x \in AluDst, k \in {1, 31, 56, 63, 64} }
  \cup
  { Asm(lddw(0, x) \o lddw(1, U64(k)) \o <<Insn(o, 0, 1, 0, Zeros(4)), exit_insn>>) :
      o \in ShiftOps \cap RegSourceOps, x \in AluDst, k \in {1, 31, 56, 63, 64} }
  \cup
  { Asm(lddw(0, U64(b)) \o << Insn(ebpf.LSH64_IMM, 0, 0, 0, U32(56)),
                               Insn(ebpf.ARSH64_IMM, 0, 0, 0, U32(56)), exit_insn >>) :
      b \in {221, 39} }

\* The byte-order programs, the first of them the one of the documentation
\* of EbpfVmNoData::prog_exec:
\*   mov64 r0, 0x2211; be r0, 16; exit
\*   lddw r0, 0x9122334455667788; op r0, w; [op r0, w;] exit
\* for op LE and BE and w 16, 32, 64 and 8, which is not a width.
EndianPrograms ==
  { Asm(<< Insn(ebpf.MOV64_IMM, 0, 0, 0, <<17, 34, 0, 0>>),
           Insn(ebpf.BE, 0, 0, 0, U32(16)), exit_insn >>) }
  \cup
  { Asm(lddw(0, <<136, 119, 102, 85, 68, 51, 34, 145>>)
        \o [i \in 1..n |-> Insn(o, 0, 0, 0, U32(w))] \o <<exit_insn>>) :
      o \in EndianOps, w \in {16, 32, 64, 8}, n \in {1, 2} }

\* Operands of the branch programs: those of the arithmetic programs, and
\* -1, which an immediate can equal.
JumpDst == AluDst \cup {Ones(8)}

JumpSrc == AluSrc \cup AluDst

\* A branch over `mov64 r0, 1; exit` to `mov64 r0, 2; exit`:
\*   lddw r0, x; [lddw r1, y;] jop r0, imm or r1, +2; mov64 r0, 1; exit;
\*   mov64 r0, 2; exit
\* and a JA backwards:   ja +2; mov64 r0, 3; exit; ja -3; exit
JumpPrograms ==
  LET tail == << Insn(ebpf.MOV64_IMM, 0, 0, 0, U32(1)), exit_insn,
                 Insn(ebpf.MOV64_IMM, 0, 0, 0, U32(2)), exit_insn >>
  IN  { Asm(lddw(0, x) \o <<Insn(o, 0, 0, 2, Trunc(y, 4))>> \o tail) :
          o \in JumpOps \ RegSourceOps, x \in JumpDst,
          y \in {v \in JumpSrc : SignExtend(Trunc(v, 4), 8) = v} }
      \cup
      { Asm(lddw(0, x) \o lddw(1, y) \o <<Insn(o, 0, 1, 2, Zeros(4))>> \o tail) :
          o \in JumpOps \cap RegSourceOps, x \in JumpDst, y \in JumpSrc }
      \cup
      { Asm(<< Insn(ebpf.JA, 0, 0, 2, Zeros(4)), Insn(ebpf.MOV64_IMM, 0, 0, 0, U32(3)),
               exit_insn, Insn(ebpf.JA, 0, 0, -3, Zeros(4)), exit_insn >>) }

\* A program of 32770 slots whose first instruction branches to slot 32768,
\* the first slot index that an i16 does not hold:
\*   ja +32767; exit (32767 times); mov64 r0, 7; exit
FarJump ==
  << [times |-> 1, bytes |-> encode_insn(Insn(ebpf.JA, 0, 0, 32767, Zeros(4)))],
     [times |-> 32767, bytes |-> encode_insn(exit_insn)],
     [times |-> 1, bytes |-> Bytes(<<Insn(ebpf.MOV64_IMM, 0, 0, 0, U32(7)), exit_insn>>)] >>

\* Branches with offset -1, which are their own targets:
\*   ja -1; exit
\*   mov64 r0, 5; ja -1; exit
\*   jeq r0, 0, -1; exit          (r0 is 0 at entry)
\*   jne r0, 0, -1; mov64 r0, 4; exit      (not taken)
SelfLoopPrograms ==
  { Asm(<< Insn(ebpf.JA, 0, 0, -1, Zeros(4)), exit_insn >>),
    Asm(<< Insn(ebpf.MOV64_IMM, 0, 0, 0, U32(5)), Insn(ebpf.JA, 0, 0, -1, Zeros(4)),
           exit_insn >>),
    Asm(<< Insn(ebpf.JEQ_IMM, 0, 0, -1, Zeros(4)), exit_insn >>),
    Asm(<< Insn(ebpf.JNE_IMM, 0, 0, -1, Zeros(4)), Insn(ebpf.MOV64_IMM, 0, 0, 0, U32(4)),
           exit_insn >>) }

\* A program of 32770 slots with a `ja -1` at slot 32768, reached from slot 0
\* by a branch that an i16 holds:
\*   ja +32766; exit (32766 times); mov64 r0, 7; ja -1; exit
FarSelfLoop ==
  << [times |-> 1, bytes |-> encode_insn(Insn(ebpf.JA, 0, 0, 32766, Zeros(4)))],
     [times |-> 32766, bytes |-> encode_insn(exit_insn)],
     [times |-> 1, bytes |-> Bytes(<< Insn(ebpf.MOV64_IMM, 0, 0, 0, U32(7)),
                                      Insn(ebpf.JA, 0, 0, -1, Zeros(4)), exit_insn >>)] >>

\* One program for each opcode whose arm is unimplemented!(), reached after a
\* register and the stack were written:
\*   mov64 r1, 5; stxdw [r10-8], r1; <opcode> r1, r2, 9; exit
UnimplementedPrograms ==
  { Asm(<< Insn(ebpf.MOV64_IMM, 1, 0, 0, U32(5)),
           Insn(ebpf.ST_DW_REG, 10, 1, -8, Zeros(4)),
           Insn(o, 1, 2, 0, U32(9)), exit_insn >>) : o \in UnimplementedOps }

\* The programs of the instruction-level specification.
Catalogue == AluPrograms(Alu32Ops) \cup MemPrograms \cup PointerPrograms \cup ControlPrograms

\* Byte sequences of one and two slots, accepted by the verifier or not: in
\* each field the smallest and the largest value, and the bounds of its sign.
DecodeSlots ==
  { <<o, r>> \o off \o imm :
      o \in {0, 24, 255}, r \in {0, 26, 161, 255},
      off \in {<<0, 0>>, <<255, 127>>, <<0, 128>>, <<255, 255>>},
      imm \in {Zeros(4), <<255, 255, 255, 127>>, <<0, 0, 0, 128>>, Ones(4),
                <<1, 2, 3, 4>>} }

DecodeInputs ==
  { <<[times |-> 1, bytes |-> a]>> : a \in DecodeSlots }
  \cup { <<[times |-> 1, bytes |-> exit_insn_bytes \o a]>> : a \in DecodeSlots }

\* The programs of the life-cycle specification.  The first writes registers,
\* the stack and the byte r1 points to; the next two call the helpers with
\* keys 1 and 0xFFFFFFFF; the fourth ends without an EXIT; the last three are
\* not programs the verifier takes.
WritesAround ==
  Asm(<< Insn(ebpf.MOV64_IMM, 2, 0, 0, U32(7)),
         Insn(ebpf.ST_DW_REG, 10, 2, -8, Zeros(4)),
         Insn(ebpf.ST_B_REG, 1, 2, 0, Zeros(4)),
         Insn(ebpf.MOV64_REG, 0, 1, 0, Zeros(4)), exit_insn >>)

Calls(key) ==
  Asm(<< Insn(ebpf.MOV64_IMM, 2, 0, 0, U32(2)),
         Insn(ebpf.MOV64_IMM, 5, 0, 0, U32(5)),
         Insn(ebpf.CALL, 0, 0, 0, key), exit_insn >>)

\* Returns the 8 bytes at the top of the stack, then overwrites them:
\*   ldxdw r0, [r10-8]; mov64 r2, 7; stxdw [r10-8], r2; exit
ReadsStackThenWrites ==
  Asm(<< Insn(ebpf.LD_DW_REG, 0, 10, -8, Zeros(4)),
         Insn(ebpf.MOV64_IMM, 2, 0, 0, U32(7)),
         Insn(ebpf.ST_DW_REG, 10, 2, -8, Zeros(4)), exit_insn >>)

NoExit == Asm(<<Insn(ebpf.MOV64_IMM, 0, 0, 0, U32(1))>>)

Truncated == <<[times |-> 1, bytes |-> SubSeq(WritesAround[1].bytes, 1, 12)]>>

\* Copies the first byte r1 points to through the stack to the second byte,
\* and returns it plus one:
\*   ldxb r2, [r1+0]; stxdw [r10-8], r2; ldxdw r0, [r10-8]; add64 r0, 1;
\*   stxb [r1+1], r0; exit
ThroughStack ==
  Asm(<< Insn(ebpf.LD_B_REG, 2, 1, 0, Zeros(4)),
         Insn(ebpf.ST_DW_REG, 10, 2, -8, Zeros(4)),
         Insn(ebpf.LD_DW_REG, 0, 10, -8, Zeros(4)),
         Insn(ebpf.ADD64_IMM, 0, 0, 0, U32(1)),
         Insn(ebpf.ST_B_REG, 1, 0, 1, Zeros(4)), exit_insn >>)

\* Stores a byte at the address 2^64 - 1 if the first byte r1 points to is
\* 0xaa, and returns 0 if it is not:
\*   ldxb r2, [r1+0]; jeq r2, 0xaa, +1; exit; mov64 r1, -1; stxb [r1+0], r2; exit
StoresAtTopIfAA ==
  Asm(<< Insn(ebpf.LD_B_REG, 2, 1, 0, Zeros(4)),
         Insn(ebpf.JEQ_IMM, 2, 0, 1, U32(170)), exit_insn,
         Insn(ebpf.MOV64_IMM, 1, 0, 0, Ones(4)),
         Insn(ebpf.ST_B_REG, 1, 2, 0, Zeros(4)), exit_insn >>)

ConcurrentPrograms == {ThroughStack, StoresAtTopIfAA, Calls(U32(1)), EndsInLddw}

LifePrograms ==
  {WritesAround, Calls(U32(1)), Calls(Ones(4)), EndsInLddw, NoExit, Truncated, <<>>}

\* ------------------------------------------------------------------------
\* Specifications
\* ------------------------------------------------------------------------

\* The life cycle of one VM: new, then set_prog, register_helper and
\* prog_exec calls in any order.  Only the fixed facade takes offsets.
Init ==
  \E k \in Kinds, b \in Builds, e \in Endians, offs \in OffsetPairs :
    /\ k # "fixed" => offs = <<0, 8>>
    /\ NewVm(k, b, e, WritesAround, offs)

Next ==
  \/ \E p \in LifePrograms, offs \in OffsetPairs :
       /\ kind # "fixed" => offs = <<0, 8>>
       /\ set_prog(p, offs)
  \/ \E r \in Registrations :
       calls.register < MaxLifeRegister /\ register_helper(r[1], r[2])
  \/ \E m \in Packets, where \in Layouts :
       \E mb \in CallerMbuffs(m, where) : prog_exec(m, mb, where)
  \/ Step
  \/ LoopEnd
  \/ Return

Spec == Init /\ [][Next]_vars

\* new, then register_helper and prog_exec calls in any order, on a program
\* that calls the helper with key 1 or the one with key 0xFFFFFFFF, or calls
\* none and runs off its end.  Under key 1 either function is registered, so
\* that a second registration can replace the first.
InitHelpers ==
  \E k \in Kinds, b \in Builds, p \in {Calls(U32(1)), Calls(Ones(4)), EndsInLddw} :
    NewVm(k, b, "little", p, <<0, 8>>)

NextHelpers ==
  \/ \E r \in Registrations \cup {<<U32(1), "sub_1_5">>} : register_helper(r[1], r[2])
  \/ \E m \in Packets, where \in Layouts :
       \E mb \in CallerMbuffs(m, where) : prog_exec(m, mb, where)
  \/ Step
  \/ LoopEnd
  \/ Return

SpecHelpers == InitHelpers /\ [][NextHelpers]_vars

\* One execution of one program of the catalogue.  The arithmetic and control
\* programs, which touch no memory, run on the facade made for them.
InitInsn ==
  \E b \in Builds, e \in Endians :
    \/ \E p \in AluPrograms(Alu32Ops) \cup ControlPrograms :
         NewVm("nodata", b, e, p, <<0, 8>>)
    \/ \E k \in Kinds, p \in MemPrograms \cup PointerPrograms :
         NewVm(k, b, e, p, <<0, 8>>)

NextInsn ==
  \/ \E m \in Packets, where \in Layouts :
       \E mb \in CallerMbuffs(m, where) : calls.exec = 0 /\ prog_exec(m, mb, where)
  \/ Step
  \/ LoopEnd
  \/ Return

SpecInsn == InitInsn /\ [][NextInsn]_vars

\* One execution of a program that stores a register and loads it back, on
\* every facade and both byte orders of the host.
InitStore ==
  \E k \in Kinds, b \in Builds, e \in Endians, p \in RoundTripPrograms \cup {EndsInLddw} :
    NewVm(k, b, e, p, <<0, 8>>)

SpecStore == InitStore /\ [][NextInsn]_vars

\* One execution of one arithmetic or byte-order program, which touches no
\* memory, or of a program that reaches an opcode that is not implemented, on
\* the facade made for such programs.  The byte order of the host
\* matters to the byte-order programs only.
InitAlu ==
  \E b \in Builds :
    \/ \E p \in AluPrograms(Alu32Ops \cup Alu64Ops) \cup ShiftPrograms
                 \cup UnimplementedPrograms \cup NegPrograms \cup {EndsInLddw} :
         NewVm("nodata", b, "little", p, <<0, 8>>)
    \/ \E e \in Endians, p \in EndianPrograms :
         NewVm("nodata", b, e, p, <<0, 8>>)

NextAlu ==
  \/ \E where \in Layouts : calls.exec = 0 /\ prog_exec(<<>>, <<>>, where)
  \/ Step
  \/ LoopEnd
  \/ Return

SpecAlu == InitAlu /\ [][NextAlu]_vars

\* Two executions of one program on one VM, the history keeping how the
\* first ended.
InitPair ==
  \E k \in Kinds, b \in Builds :
    \E p \in {WritesAround, ReturnsR10, EndsInLddw, Calls(U32(1)), ReadsStackThenWrites} :
      NewVm(k, b, "little", p, <<0, 8>>)

NextPair ==
  \/ \E m \in Packets, where \in Layouts :
       \E mb \in CallerMbuffs(m, where) : prog_exec(m, mb, where)
  \/ Step
  \/ LoopEnd
  \/ ReturnNoted

SpecPair == InitPair /\ [][NextPair]_vars

\* mov64 r0, v; exit
Returns(v) == Asm(<<Insn(ebpf.MOV64_IMM, 0, 0, 0, v), exit_insn>>)

\* mov64 r0, 1; exit and mov64 r0, 2; exit
JitPrograms == {Returns(U32(1)), Returns(U32(2))}

\* A VM with a program that works on registers alone; then set_prog,
\* jit_compile, prog_exec and prog_exec_jit calls in any order, the history
\* keeping how the call before ended.  Each program ends by its EXIT.
InitJit ==
  \E k \in Kinds, b \in Builds, p \in JitPrograms : NewVm(k, b, "little", p, <<0, 8>>)

NextJit ==
  \/ \E p \in JitPrograms \cup {NoExit} : set_prog(p, <<0, 8>>)
  \/ jit_compile
  \/ \E m \in Packets, where \in Layouts :
       \E mb \in CallerMbuffs(m, where) : prog_exec(m, mb, where)
  \/ \E m \in Packets, where \in Layouts :
       \E mb \in CallerMbuffs(m, where) : prog_exec_jit(m, mb, where)
  \/ Step
  \/ ReturnNoted

SpecJit == InitJit /\ [][NextJit]_vars

\* One execution of one branch program, or of a program whose LD_DW_IMM
\* fills the end of the program, on the same facade.
InitJump ==
  \E b \in Builds :
    \E p \in JumpPrograms \cup SelfLoopPrograms \cup ControlPrograms
              \cup {FarJump, FarSelfLoop, IntoSecondLddw, LddwAtEnd} :
      NewVm("nodata", b, "little", p, <<0, 8>>)

SpecJump == InitJump /\ [][NextAlu]_vars

\* The fixed facade given offsets of every size: new, then set_prog (of an
\* accepted or a rejected program) and prog_exec calls in any order.
InitOffsets ==
  \E b \in Builds, offs \in WideOffsetPairs :
    NewVm("fixed", b, "little", WritesAround, offs)

NextOffsets ==
  \/ \E p \in {WritesAround, EndsInLddw, NoExit}, offs \in WideOffsetPairs :
       set_prog(p, offs)
  \/ \E m \in Packets, where \in Layouts : prog_exec(m, <<>>, where)
  \/ Step
  \/ LoopEnd
  \/ Return

SpecOffsets == InitOffsets /\ [][NextOffsets]_vars

\* The fixed facade: new, then set_prog and prog_exec calls in any order, on
\* a program that writes into the facade's buffer through r1 and one that
\* runs off its end.
InitFixed ==
  \E b \in Builds, e \in Endians, offs \in FixedPairs :
    NewVm("fixed", b, e, WritesAround, offs)

NextFixed ==
  \/ \E p \in {WritesAround, EndsInLddw}, offs \in FixedPairs : set_prog(p, offs)
  \/ \E m \in Packets, where \in Layouts : prog_exec(m, <<>>, where)
  \/ Step
  \/ LoopEnd
  \/ Return

SpecFixed == InitFixed /\ [][NextFixed]_vars

\* The decoder applied to a slot of a byte sequence handed to new.
InitDecode == \E p \in DecodeInputs : VmFields("mbuff", "debug", "little", p, <<0, 8>>)

SpecDecode == InitDecode /\ [][\E i \in 0..1 : decode_slot(i)]_vars

\* Up to two prog_exec calls in flight on one VM, each on its own packet,
\* metadata buffer and stack, the scheduler switching between them after any
\* instruction.  The fixed facade is not here: its prog_exec takes &mut self.
\* The caller of the mbuff facade passes a metadata buffer that is not empty.
\* register_helper, which takes &mut self too, is called while no call is in
\* flight.
InitConcurrent ==
  \E k \in Kinds \ {"fixed"}, b \in Builds, p \in ConcurrentPrograms :
    NewVm(k, b, "little", p, <<0, 8>>)

NextConcurrent ==
  \/ other.pc = "idle" /\ calls.register = 0 /\ register_helper(U32(1), "pack_bytes")
  \/ \E m \in ConcurrentPackets, where \in Layouts :
       \E mb \in CallerMbuffs(m, where) :
         /\ other.pc = "idle" \/ where.stack # other.base.stack
         /\ kind = "mbuff" => mb # <<>>
         /\ prog_exec(m, mb, where)
  \/ Step
  \/ LoopEnd
  \/ Return
  \/ Switch

SpecConcurrent == InitConcurrent /\ [][NextConcurrent]_vars

\* ------------------------------------------------------------------------
\* Properties
\* ------------------------------------------------------------------------

\* The last step executed an instruction whose opcode is in ops.
Executed(ops) == hist.op = "step" /\ hist.last.insn.opc \in ops

\* The access the guard was last asked about lies, in true arithmetic, inside
\* one region.
AccessInside == Holding(Locals, hist.access.addr, hist.access.len) # {}

AccessOverflows == add_overflows(hist.access.addr, U64(hist.access.len))

\* C1: after a store instruction, either the bytes stored lie inside one of
\* the three regions and execution goes on, or the call was aborted; no store
\* goes to an address outside the regions.
C1_StoreInsideOrAbort ==
  Executed(StoreOps) =>
    \/ pc = "running" /\ hist.access.verdict = "ok" /\ AccessInside
    \/ pc = "panicked"

\* C2: check_mem accepts an access, load or store, exactly when some region
\* (B, N) has B <= A and A + L <= B + N in arithmetic without wraparound.
C2_GuardAcceptsIffInside ==
  hist.access.type # "none" => (hist.access.verdict = "ok" <=> AccessInside)

\* C3: an access whose A + L overflows 64 bits is never accepted.
C3_OverflowRejected ==
  (hist.access.type # "none" /\ AccessOverflows) => hist.access.verdict # "ok"

\* C4 (as stated): whenever prog_exec returns a value, that value is r0.
C4_ReturnsR0 == pc = "returned" => result = reg[0]

\* C4 (amended): when prog_exec returns at an EXIT the value is r0; when it
\* returns because insn_ptr moved past the last slot the value is 0.
C4_ReturnsR0AtExitZeroAtEnd ==
  pc = "returned" =>
    /\ hist.stop \in {"exit", "end"}
    /\ hist.stop = "exit" => result = reg[0]
    /\ hist.stop = "end" => result = Zeros(8)

\* An accepted program returned by running past its last slot with r0 = 7.
C4_Witness ==
  /\ pc = "returned"
  /\ hist.stop = "end"
  /\ check(prog) = "ok"
  /\ reg[0] = U64(7)
  /\ result = Zeros(8)

\* C5: after a 32-bit ALU instruction the upper 32 bits of the destination
\* register are zero.
C5_Alu32UpperHalfZero ==
  (Executed(Alu32Ops) /\ pc = "running") =>
    SubSeq(reg[hist.last.insn.dst], 5, 8) = Zeros(4)

\* C6: a set_prog call that fails on a rejected program changes neither the
\* loaded program, nor the helper table, nor the fixed facade's buffer and
\* offsets.
C6_RejectedSetProgChangesNothing ==
  [][(calls'.set_prog # calls.set_prog /\ fault' # "")
       => UNCHANGED <<prog, helpers, buffer, data_offset, data_end_offset>>]_vars

\* C7: every instruction executed is the one found, at the slot executed, in
\* the program last accepted by new or set_prog, and every execution starts
\* at slot 0.
C7_RunsLoadedProgram ==
  /\ hist.at_entry => insn_ptr = 0
  /\ hist.last.idx >= 0 =>
       /\ hist.last.idx < NumSlots(hist.accepted)
       /\ hist.last.insn = get_insn(hist.accepted, hist.last.idx)

\* A VM created with WritesAround executes the CALL in slot 2 of the program
\* set_prog replaced it with.
C7_Witness ==
  /\ calls.set_prog = 1
  /\ hist.accepted = Calls(U32(1))
  /\ hist.last.idx = 2
  /\ hist.last.insn.opc = ebpf.CALL

\* C8: at the start of every execution insn_ptr = 0, r0 and r2..r9 are 0,
\* r10 is the end of the stack, and r1 is the address of the metadata buffer
\* if it is not empty, else of the packet if it is not empty, else 0.
C8_EntryState ==
  hist.at_entry =>
    /\ insn_ptr = 0
    /\ \A i \in {0} \cup 2..9 : reg[i] = Zeros(8)
    /\ reg[10] = wrapping_add(base.stack, U64(Len(stack)))
    /\ reg[1] = IF Len(mbuff) > 0 THEN base.mbuff
                ELSE IF Len(mem) > 0 THEN base.mem
                ELSE Zeros(8)

\* The second execution on a VM starts, with a metadata buffer and a packet
\* that are both non-empty.
C8_Witness ==
  /\ hist.at_entry
  /\ calls.exec = 2
  /\ Len(mbuff) > 0
  /\ Len(mem) > 0

\* C9: while a program runs, and when it has stopped, r10 is the end of the
\* stack.
C9_R10NeverWritten ==
  (pc # "idle" /\ stack # <<>>) => reg[10] = wrapping_add(base.stack, U64(Len(stack)))

\* C10: a CALL whose key is in the helper table invokes that helper with
\* (r1, r2, r3, r4, r5), puts its result in r0, leaves r1..r10 and all memory
\* as they were, and leaves insn_ptr one past the CALL.
C10_CallFrame ==
  [][(/\ pc = "running"
      /\ loop_test = "body"
      /\ get_insn(prog, insn_ptr).opc = ebpf.CALL
      /\ get_insn(prog, insn_ptr).imm \in DOMAIN helpers)
     => LET f == helpers[get_insn(prog, insn_ptr).imm]
        IN  /\ hist'.call.function = f
            /\ hist'.call.args = <<reg[1], reg[2], reg[3], reg[4], reg[5]>>
            /\ reg'[0] = apply_helper(f, reg[1], reg[2], reg[3], reg[4], reg[5])
            /\ \A i \in 1..10 : reg'[i] = reg[i]
            /\ UNCHANGED <<stack, mem, mbuff, buffer>>
            /\ insn_ptr' = insn_ptr + 1
            /\ pc' = "running"]_vars

\* The helper registered under 0xFFFFFFFF was called by `call -1`, with a
\* first argument that differs from its fifth.
C10_Witness ==
  /\ Executed({ebpf.CALL})
  /\ hist.call.key = Ones(4)
  /\ hist.call.function = "sub_1_5"
  /\ hist.call.args[1] # hist.call.args[5]
  /\ pc = "running"

RECURSIVE Latest(_, _)
\* The function of the last registration of key in the log, "none" if the
\* key was never registered.
Latest(log, key) ==
  IF log = <<>> THEN "none"
  ELSE IF log[Len(log)][1] = key THEN log[Len(log)][2]
  ELSE Latest(SubSeq(log, 1, Len(log) - 1), key)

\* C11: a CALL with key k invokes the function most recently registered
\* under k before the execution started, and a CALL whose key was never
\* registered aborts the execution of the accepted program with an
\* unknown-helper fault.
C11_ResolvedAtExecution ==
  Executed({ebpf.CALL}) =>
    LET f == Latest(hist.log, hist.last.insn.imm)
    IN  IF f = "none"
        THEN pc = "panicked" /\ fault = "unknown helper" /\ check(prog) = "ok"
        ELSE /\ pc = "running"
             /\ hist.call.function = f
             /\ reg[0] = apply_helper(f, hist.call.args[1], hist.call.args[2],
                                      hist.call.args[3], hist.call.args[4],
                                      hist.call.args[5])

\* The second execution calls key 1 after a second registration under key 1
\* replaced the function of the first.
C11_Witness ==
  /\ Executed({ebpf.CALL})
  /\ pc = "running"
  /\ calls.exec = 2
  /\ Len(hist.log) = 2
  /\ hist.log[1][1] = hist.last.insn.imm
  /\ hist.log[2][1] = hist.last.insn.imm
  /\ hist.log[1][2] # hist.log[2][2]
  /\ hist.call.function = hist.log[2][2]

\* C12: a DIV or MOD instruction, register or immediate form, whose divisor
\* is 0 (the 64-bit divisor at width 64, the low 32 bits of the divisor at
\* width 32, whatever its upper 32 bits) aborts the execution with a
\* division-by-zero fault: nothing is returned, no register is updated.
C12_DivisionByZeroFatal ==
  [][LET insn == get_insn(prog, insn_ptr)
         w == IF insn.opc \in Alu32Ops THEN 4 ELSE 8
         divisor == IF insn.opc \in RegSourceOps THEN reg[insn.src]
                    ELSE SignExtend(insn.imm, 8)
     IN  (/\ pc = "running"
          /\ loop_test = "body"
          /\ insn.opc \in { ebpf.DIV32_IMM, ebpf.DIV32_REG, ebpf.MOD32_IMM,
                             ebpf.MOD32_REG, ebpf.DIV64_IMM, ebpf.DIV64_REG,
                             ebpf.MOD64_IMM, ebpf.MOD64_REG }
          /\ SubSeq(divisor, 1, w) = Zeros(w))
         => /\ pc' = "panicked"
            /\ fault' \in {"division by 0", "attempt to divide by zero"}
            /\ reg' = reg
            /\ result' = result]_vars

\* A 32-bit register division was aborted on a divisor that is 2^32: not 0
\* as a 64-bit value, 0 in its low 32 bits.
C12_Witness ==
  /\ Executed({ebpf.DIV32_REG, ebpf.MOD32_REG})
  /\ pc = "panicked"
  /\ fault = "attempt to divide by zero"
  /\ reg[hist.last.insn.src] = Zeros(4) \o <<1, 0, 0, 0>>
  /\ reg[hist.last.insn.dst] \in AluDst

\* The condition of the branch insn holds in the registers r.
Taken(insn, r) ==
  LET D == r[insn.dst]
      X == IF insn.opc \in RegSourceOps THEN r[insn.src] ELSE SignExtend(insn.imm, 8)
      o == insn.opc
  IN  CASE o = ebpf.JA -> TRUE
        [] o \in {ebpf.JEQ_IMM, ebpf.JEQ_REG} -> D = X
        [] o \in {ebpf.JGT_IMM, ebpf.JGT_REG} -> ~ULe(D, X)
        [] o \in {ebpf.JGE_IMM, ebpf.JGE_REG} -> ~ULt(D, X)
        [] o \in {ebpf.JSET_IMM, ebpf.JSET_REG} ->
             \E i \in 0..63 : BitOf(D, i) = 1 /\ BitOf(X, i) = 1
        [] o \in {ebpf.JNE_IMM, ebpf.JNE_REG} -> D # X
        [] o \in {ebpf.JSGT_IMM, ebpf.JSGT_REG} -> ~SLe(D, X)
        [] o \in {ebpf.JSGE_IMM, ebpf.JSGE_REG} -> ~SLt(D, X)

\* C13: a taken branch at slot i with offset off, where 0 <= i + 1 + off < N,
\* leaves insn_ptr = i + 1 + off, whatever the number N of slots of the
\* program.
C13_TakenBranchTarget ==
  [][LET insn == get_insn(prog, insn_ptr)
         target == insn_ptr + 1 + insn.off
     IN  (/\ pc = "running"
          /\ loop_test = "body"
          /\ insn.opc \in JumpOps
          /\ Taken(insn, reg)
          /\ 0 <= target
          /\ target < NumSlots(prog))
         => pc' = "running" /\ insn_ptr' = target]_vars

\* C14: LD_DW_IMM at slot i sets reg[dst] to the 64-bit value whose low half
\* is the immediate of slot i and whose high half is the immediate of slot
\* i + 1, both read as unsigned 32-bit values, changes no other register, and
\* leaves insn_ptr = i + 2: slot i + 1 is not dispatched.
C14_LdDwImm ==
  [][LET insn == get_insn(prog, insn_ptr)
         next == get_insn(prog, insn_ptr + 1)
     IN  (/\ pc = "running"
          /\ loop_test = "body"
          /\ insn.opc = ebpf.LD_DW_IMM
          /\ insn_ptr + 1 < NumSlots(prog))
         => /\ pc' = "running"
            /\ reg'[insn.dst] = insn.imm \o next.imm
            /\ \A i \in 0..10 \ {insn.dst} : reg'[i] = reg[i]
            /\ insn_ptr' = insn_ptr + 2
            /\ hist'.last.idx = insn_ptr]_vars

\* An LD_DW_IMM whose own immediate is 0x80000001 (negative as an i32) and
\* whose next slot holds 1 has loaded 0x0000000180000001 into r0.
C14_Witness ==
  /\ Executed({ebpf.LD_DW_IMM})
  /\ pc = "running"
  /\ hist.last.insn.imm = <<1, 0, 0, 128>>
  /\ reg[0] = <<1, 0, 0, 128, 1, 0, 0, 0>>
  /\ insn_ptr = hist.last.idx + 2

\* C15: LE and BE with immediate w in {16, 32, 64} set the destination to
\* its low w bits in the byte order asked for, zero-extended to 64 bits: the
\* low w bits themselves when the host has that byte order (LE on a
\* little-endian host), their bytes reversed when it has the other one (BE on
\* a little-endian host).  On a little-endian host BE w applied twice gives
\* the low w bits of the register.
C15_ByteOrder ==
  /\ [][LET insn == get_insn(prog, insn_ptr)
            w == insn.imm[1] \div 8
            x == reg[insn.dst]
            swap == (insn.opc = ebpf.BE) # (endian = "big")
        IN  (/\ pc = "running"
             /\ loop_test = "body"
             /\ insn.opc \in EndianOps
             /\ insn.imm \in {U32(16), U32(32), U32(64)})
            => /\ pc' = "running"
               /\ reg'[insn.dst] = [i \in 1..8 |-> IF i > w THEN 0
                                                   ELSE IF swap THEN x[w + 1 - i]
                                                   ELSE x[i]]]_vars
  /\ [](LET w == get_insn(prog, 2).imm[1] \div 8
            x == get_insn(prog, 0).imm \o get_insn(prog, 1).imm
        IN  (/\ pc = "returned"
             /\ endian = "little"
             /\ prog \in EndianPrograms
             /\ NumSlots(prog) = 5
             /\ get_insn(prog, 2).opc = ebpf.BE
             /\ w \in {2, 4, 8})
            => result = [i \in 1..8 |-> IF i > w THEN 0 ELSE x[i]])

\* The program of the documentation, on a little-endian host: BE 16 turned
\* 0x2211 into 0x1122.
C15_Witness ==
  /\ Executed({ebpf.BE})
  /\ endian = "little"
  /\ hist.last.insn.imm = U32(16)
  /\ get_insn(prog, 0).imm = <<17, 34, 0, 0>>
  /\ reg[0] = <<34, 17, 0, 0, 0, 0, 0, 0>>

\* C16: every shift instruction shifts by its count modulo the width of the
\* operation (32 or 64), whatever the count (an immediate or a register, at
\* least the width, negative), and none aborts the execution.
C16_ShiftCountModuloWidth ==
  [][LET insn == get_insn(prog, insn_ptr)
         o == insn.opc
         w == IF o \in Alu32Ops THEN 32 ELSE 64
         count == IF o \in RegSourceOps THEN reg[insn.src] ELSE insn.imm
         k == count[1] % w
         x == IF w = 32 THEN Trunc(reg[insn.dst], 4) ELSE reg[insn.dst]
     IN  (pc = "running" /\ loop_test = "body" /\ o \in ShiftOps)
         => /\ pc' = "running"
            /\ reg'[insn.dst] =
                 ZeroExtend(CASE o \in {ebpf.LSH32_IMM, ebpf.LSH32_REG,
                                        ebpf.LSH64_IMM, ebpf.LSH64_REG} -> Shl(x, k)
                              [] o \in {ebpf.RSH32_IMM, ebpf.RSH32_REG,
                                        ebpf.RSH64_IMM, ebpf.RSH64_REG} -> Shr(x, k)
                              [] OTHER -> Sar(x, k), 8)]_vars

\* C17: for a count k below the width, RSH64 fills the k vacated high bits
\* with 0, ARSH64 fills them with bit 63 of the operand, ARSH32 fills bits
\* 32 - k .. 31 with bit 31 of the low word and leaves the upper word zero;
\* LSH64 by 56 followed by ARSH64 by 56 extends the sign of the low byte of
\* the register to 64 bits.
C17_ArithmeticAndLogicalShifts ==
  /\ [][LET insn == get_insn(prog, insn_ptr)
            o == insn.opc
            w == IF o \in Alu32Ops THEN 32 ELSE 64
            count == IF o \in RegSourceOps THEN reg[insn.src] ELSE insn.imm
            k == count[1]
            x == reg[insn.dst]
            y == reg'[insn.dst]
        IN  (/\ pc = "running"
             /\ loop_test = "body"
             /\ o \in { ebpf.RSH64_IMM, ebpf.RSH64_REG, ebpf.ARSH64_IMM,
                         ebpf.ARSH64_REG, ebpf.ARSH32_IMM, ebpf.ARSH32_REG }
             /\ k < w
             /\ \A i \in 2..Len(count) : count[i] = 0)
            => /\ pc' = "running"
               /\ \A j \in 0..63 :
                    BitOf(y, j) =
                      IF j >= w THEN 0
                      ELSE IF j + k < w THEN BitOf(x, j + k)
                      ELSE IF o \in {ebpf.RSH64_IMM, ebpf.RSH64_REG} THEN 0
                      ELSE BitOf(x, w - 1)]_vars
  /\ []((/\ Executed({ebpf.ARSH64_IMM})
          /\ hist.last.idx = 3
          /\ hist.last.insn.imm = U32(56)
          /\ get_insn(prog, 2).opc = ebpf.LSH64_IMM
          /\ get_insn(prog, 2).imm = U32(56)
          /\ get_insn(prog, 0).opc = ebpf.LD_DW_IMM)
         => LET b == get_insn(prog, 0).imm[1]
            IN  reg[0] = [i \in 1..8 |-> IF i = 1 THEN b
                                         ELSE IF b >= 128 THEN 255 ELSE 0])

\* The program of the documentation has turned the byte 0xdd into
\* 0xffffffffffffffdd.
C17_Witness ==
  /\ Executed({ebpf.ARSH64_IMM})
  /\ pc = "running"
  /\ hist.last.insn.imm = U32(56)
  /\ get_insn(prog, 0).imm = U32(221)
  /\ reg[0] = <<221, 255, 255, 255, 255, 255, 255, 255>>

\* C18: a store-immediate of width W that goes through leaves at its address
\* the W low bytes of the 32-bit immediate zero-extended to 64 bits: the
\* immediate truncated for W <= 4, the immediate under 32 zero bits for W = 8.
C18_StoreImmZeroExtended ==
  (Executed(StoreImmOps) /\ pc = "running" /\ AccessInside) =>
    LET w == hist.access.len
        r == CHOOSE r \in Holding(Locals, hist.access.addr, w) : TRUE
    IN  ReadBytes(Locals, r, hist.access.addr, w)
          = ToMem(SubSeq(hist.last.insn.imm \o Zeros(4), 1, w))

\* C19: an execution of the program, with the helper table, of the
\* execution before it, on a packet and a metadata buffer holding the same
\* bytes, ends as that one did (the same return value or the same fault) and
\* leaves the same bytes in the packet and the metadata buffer, wherever the
\* stack and the regions are.
C19_Deterministic ==
  (/\ pc \in {"returned", "panicked"}
   /\ calls.set_prog = 0
   /\ calls.register = 0
   /\ hist.prev.pc # "none"
   /\ hist.prev.given = hist.given)
  => /\ hist.prev.pc = pc
     /\ hist.prev.result = result
     /\ hist.prev.fault = fault
     /\ hist.prev.mem = mem
     /\ hist.prev.mbuff = mbuff

\* C20: every runtime fault (a division or modulus by zero, an out-of-bounds
\* access, an unknown helper key, an unsupported byte-order width, an
\* unimplemented or unknown opcode) aborts the execution without returning a
\* value, with a diagnostic that carries the index of the faulting
\* instruction and the offending operand.
C20_FaultDiagnostics ==
  (/\ pc = "panicked"
   /\ fault \in { "division by 0", "attempt to divide by zero", "out of bounds",
                   "unknown helper", "unreachable", "not implemented" })
  => /\ result = Zeros(8)
     /\ Diagnostic.insn = hist.last.idx
     /\ Diagnostic.operand # <<>>

\* C21: when the interpreter starts an execution of the fixed facade, the 8
\* bytes of the buffer at data_offset are the packet's address and the 8 bytes
\* at data_end_offset are that address plus the packet's length, as host-endian
\* u64, for every pair of offsets and whatever an earlier execution wrote.
C21_FixedBufferPointers ==
  (kind = "fixed" /\ hist.at_entry) =>
    /\ SubSeq(mbuff, data_offset + 1, data_offset + 8) = ToMem(base.mem)
    /\ SubSeq(mbuff, data_end_offset + 1, data_end_offset + 8)
         = ToMem(wrapping_add(base.mem, U64(Len(mem))))

\* C22: at the start of every execution the 512 bytes of the stack are zero,
\* and a program that loads the top of the stack before it stores there gets
\* zero in every execution, whatever the execution before it stored.
C22_StackFreshPerExecution ==
  /\ hist.at_entry => stack = Zeros(ebpf.STACK_SIZE)
  /\ (prog = ReadsStackThenWrites /\ pc = "returned") => result = Zeros(8)

\* An execution that loaded the top of the stack returned, after an earlier
\* execution on the same VM had stored 7 there and returned.
C22_Witness ==
  /\ prog = ReadsStackThenWrites
  /\ pc = "returned"
  /\ hist.prev.pc = "returned"
  /\ calls.exec = 2

\* The locals the call the interpreter is working on started from.
EntryLocals ==
  [ reg |-> entry_reg(hist.given.mbuff, hist.given.mem, base), insn_ptr |-> 0,
    stack |-> Zeros(ebpf.STACK_SIZE), mem |-> hist.given.mem,
    mbuff |-> hist.given.mbuff, pc |-> "running", result |-> Zeros(8),
    fault |-> "", access |-> NoAccess, call |-> NoCall, stop |-> "none" ]

RECURSIVE RunAlone(_)
\* How a call that starts from the locals s ends when no other call is in
\* flight: the loop of prog_exec, run to its end.
RunAlone(s) ==
  IF s.pc # "running" THEN s
  ELSE IF s.insn_ptr < 0
    THEN (IF build = "debug" THEN Panic(s, "arithmetic overflow")
          ELSE [s EXCEPT !.pc = "returned", !.result = Zeros(8)])
  ELSE IF s.insn_ptr * ebpf.INSN_SIZE >= prog_len(prog)
    THEN [s EXCEPT !.pc = "returned", !.result = Zeros(8)]
  ELSE RunAlone(dispatch([s EXCEPT !.insn_ptr = @ + 1], get_insn(prog, s.insn_ptr)))

\* C23: of two calls in flight on one VM, interleaved at any instruction,
\* each ends as it ends when it runs alone (the same return value or fault,
\* the same bytes left in its packet and metadata buffer), and while a call
\* is in flight the program and the helper table do not change.
C23_ConcurrentExecutionsIsolated ==
  /\ [](pc \in {"returned", "panicked", "ub"} =>
          \E alone \in {RunAlone(EntryLocals)} :
            /\ alone.pc = pc
            /\ pc # "ub" => /\ alone.result = result
                            /\ alone.fault = fault
                            /\ alone.mem = mem
                            /\ alone.mbuff = mbuff)
  /\ [][(pc # "idle" \/ other.pc # "idle") => (prog' = prog /\ helpers' = helpers)]_vars

\* C24: a program holding one of the eleven opcodes that are not implemented
\* is accepted when loaded, and the step that dispatches such an opcode
\* aborts the execution: it panics, no value is returned, and no register and
\* no byte of the stack, the packet or the metadata buffer changes.
C24_UnimplementedOpcodesFault ==
  /\ [](Executed(UnimplementedOps) => check(prog) = "ok")
  /\ [][(/\ pc = "running"
         /\ loop_test = "body"
         /\ get_insn(prog, insn_ptr).opc \in UnimplementedOps)
        => /\ pc' = "panicked"
           /\ fault' = "not implemented"
           /\ result' = Zeros(8)
           /\ reg' = reg
           /\ stack' = stack
           /\ mem' = mem
           /\ mbuff' = mbuff]_vars

\* An execution was aborted at an opcode that is not implemented, after the
\* program had written r1 and the stack.
C24_Witness ==
  /\ pc = "panicked"
  /\ Executed(UnimplementedOps)
  /\ reg[1] = U64(5)
  /\ SubSeq(stack, ebpf.STACK_SIZE - 7, ebpf.STACK_SIZE) = U64(5)

\* C25: the raw facade starts the interpreter with an empty metadata buffer
\* and r1 the packet's address (0 for an empty packet), and an access that
\* succeeds there lies in the packet or in the stack; the no-data facade
\* starts it with an empty metadata buffer, an empty packet and r1 = 0, and
\* there every load or store whose bytes are not all inside the stack aborts
\* with the out-of-bounds fault.
C25_FacadeMarshalling ==
  /\ (hist.at_entry /\ kind = "raw") =>
       /\ mbuff = <<>>
       /\ reg[1] = IF Len(mem) > 0 THEN base.mem ELSE Zeros(8)
  /\ (hist.at_entry /\ kind = "nodata") =>
       /\ mbuff = <<>>
       /\ mem = <<>>
       /\ reg[1] = Zeros(8)
  /\ (kind = "raw" /\ hist.access.verdict = "ok") =>
       Holding(Locals, hist.access.addr, hist.access.len) \cap {"mem", "stack"} # {}
  /\ (/\ kind = "nodata"
      /\ hist.access.type # "none"
      /\ "stack" \notin Holding(Locals, hist.access.addr, hist.access.len))
     => pc = "panicked" /\ fault = "out of bounds"

\* C26: decoding a slot of a byte sequence of length 8*N gives opcode = byte
\* 0, dst = low nibble of byte 1, src = high nibble of byte 1, offset = bytes
\* 2-3 and immediate = bytes 4-7 as little-endian signed numbers, and encoding
\* these five fields again gives the 8 bytes of the slot.
C26_DecodeEncodeRoundTrip ==
  hist.op = "decode" =>
    LET b(k) == byte_at(prog, ebpf.INSN_SIZE * hist.last.idx + k)
        f == hist.last.insn
        offset == f.off
        immediate == I32Value(f.imm)
    IN  /\ f.opc = b(0)
        /\ f.dst = b(1) % 16
        /\ f.src = b(1) \div 16
        /\ offset \in -32768..32767
        /\ offset % 65536 = b(2) + 256 * b(3)
        /\ (immediate >= 0) = (b(7) < 128)
        /\ immediate % 256 = b(4)
        /\ (immediate \div 256) % 256 = b(5)
        /\ (immediate \div 65536) % 256 = b(6)
        /\ (immediate \div 16777216) % 256 = b(7)
        /\ <<f.opc, f.dst + 16 * f.src>> \o I16Bytes(offset) \o I32(immediate)
             = <<b(0), b(1), b(2), b(3), b(4), b(5), b(6), b(7)>>

\* The second slot of a sequence was decoded: its nibbles differ, its offset
\* is -32768 and its immediate -2^31.
C26_Witness ==
  /\ hist.op = "decode"
  /\ hist.last.idx = 1
  /\ hist.last.insn.dst = 10
  /\ hist.last.insn.src = 1
  /\ hist.last.insn.off = -32768
  /\ hist.last.insn.imm = <<0, 0, 0, 128>>

\* C27: a taken branch with offset -1 leaves insn_ptr at the slot of the
\* branch itself, the execution still running; and an execution that is at
\* a JA with offset -1 is at it after every further step: it never returns
\* and never faults.
AtSelfJa ==
  /\ pc = "running"
  /\ loop_test = "body"
  /\ get_insn(prog, insn_ptr).opc = ebpf.JA
  /\ get_insn(prog, insn_ptr).off = -1

C27_SelfBranchLoopsForever ==
  /\ [][LET insn == get_insn(prog, insn_ptr)
        IN  (/\ pc = "running"
             /\ loop_test = "body"
             /\ insn.opc \in JumpOps
             /\ insn.off = -1
             /\ Taken(insn, reg))
            => pc' = "running" /\ insn_ptr' = insn_ptr]_vars
  /\ [][AtSelfJa => AtSelfJa']_vars


\* Sums and products modulo 256^Len(a), digit by digit in base 256: the
\* carry into digit j of a + b, the digits of the sum from digit j on, the
\* digits of a times one digit m, and the sum of the rows a * b[k] * 256^(k-1)
\* of the long multiplication, each cut to Len(a) digits.
RECURSIVE CarryInto(_, _, _)
CarryInto(a, b, j) ==
  IF j = 1 THEN 0 ELSE (a[j - 1] + b[j - 1] + CarryInto(a, b, j - 1)) \div 256

RECURSIVE ModSumFrom(_, _, _)
ModSumFrom(a, b, j) ==
  IF j > Len(a) THEN <<>>
  ELSE <<(a[j] + b[j] + CarryInto(a, b, j)) % 256>> \o ModSumFrom(a, b, j + 1)

ModSum(a, b) == ModSumFrom(a, b, 1)

RECURSIVE TimesDigit(_, _, _, _)
TimesDigit(a, m, j, carry) ==
  IF j > Len(a) THEN <<>>
  ELSE <<(a[j] * m + carry) % 256>>
       \o TimesDigit(a, m, j + 1, (a[j] * m + carry) \div 256)

RECURSIVE ModProductFrom(_, _, _)
ModProductFrom(a, b, k) ==
  IF k > Len(a) THEN Zeros(Len(a))
  ELSE CHOOSE r \in { ModSum(x, y) :
                        x \in {SubSeq(Zeros(k - 1) \o TimesDigit(a, b[k], 1, 0), 1, Len(a))},
                        y \in {ModProductFrom(a, b, k + 1)} } : TRUE

ModProduct(a, b) == ModProductFrom(a, b, 1)

\* C28: ADD, SUB and MUL never end the execution.  The 64-bit forms leave in
\* dst the sum, difference or product modulo 2^64 of dst and the operand (a
\* register, or the immediate sign-extended to 64 bits); the 32-bit forms
\* leave in the low 32 bits of dst the sum, difference or product modulo
\* 2^32 of the low 32 bits of dst and of the operand.  A difference is the
\* number whose sum with the operand is dst.
C28_AddSubMulWrap ==
  [][LET insn == get_insn(prog, insn_ptr)
         o == insn.opc
     IN  (/\ pc = "running"
          /\ loop_test = "body"
          /\ o \in { ebpf.ADD64_IMM, ebpf.ADD64_REG, ebpf.SUB64_IMM, ebpf.SUB64_REG,
                      ebpf.MUL64_IMM, ebpf.MUL64_REG, ebpf.ADD32_IMM, ebpf.ADD32_REG,
                      ebpf.SUB32_IMM, ebpf.SUB32_REG, ebpf.MUL32_IMM, ebpf.MUL32_REG })
         => /\ pc' = "running"
            /\ \E w \in {IF o \in Alu32Ops THEN 4 ELSE 8} :
               \E D \in {Trunc(reg[insn.dst], w)} :
               \E X \in {IF o \in RegSourceOps THEN Trunc(reg[insn.src], w)
                         ELSE SignExtend(insn.imm, w)} :
               \E y \in {Trunc(reg'[insn.dst], w)} :
                 CASE o \in {ebpf.ADD64_IMM, ebpf.ADD64_REG, ebpf.ADD32_IMM, ebpf.ADD32_REG}
                        -> y = ModSum(D, X)
                   [] o \in {ebpf.SUB64_IMM, ebpf.SUB64_REG, ebpf.SUB32_IMM, ebpf.SUB32_REG}
                        -> ModSum(y, X) = D
                   [] OTHER -> y = ModProduct(D, X)]_vars

\* 0xffffffff7fffffff + (-1), the immediate sign-extended, has carried out of
\* 64 bits and left 0xffffffff7ffffffe.
C28_Witness ==
  /\ Executed({ebpf.ADD64_IMM})
  /\ pc = "running"
  /\ hist.last.insn.imm = Ones(4)
  /\ get_insn(prog, 0).imm = <<255, 255, 255, 127>>
  /\ reg[0] = <<254, 255, 255, 127, 255, 255, 255, 255>>


\* C29: NEG64 and NEG32 never end the execution.  NEG64 leaves in dst the
\* number whose sum with the former dst is 0 modulo 2^64; NEG32 leaves in
\* the low 32 bits of dst the number whose sum with the former low 32 bits
\* is 0 modulo 2^32, under 32 bits that are zero.  This for every value of
\* dst, 2^63 and a low half of 2^31 included.
C29_NegWraps ==
  [][LET insn == get_insn(prog, insn_ptr)
         o == insn.opc
     IN  (/\ pc = "running"
          /\ loop_test = "body"
          /\ o \in {ebpf.NEG32, ebpf.NEG64})
         => /\ pc' = "running"
            /\ \E D \in {reg[insn.dst]} :
               \E y \in {reg'[insn.dst]} :
                 IF o = ebpf.NEG64 THEN ModSum(y, D) = Zeros(8)
                 ELSE /\ ModSum(Trunc(y, 4), Trunc(D, 4)) = Zeros(4)
                      /\ SubSeq(y, 5, 8) = Zeros(4)]_vars


\* Orders of two 64-bit numbers read from their bytes: a is above b as an
\* unsigned number if the highest byte that differs is larger in a; as a
\* two's-complement number, if it is so once the sign bits are inverted.
UnsignedAbove(a, b) ==
  \E i \in 1..Len(a) : a[i] > b[i] /\ \A j \in (i + 1)..Len(a) : a[j] = b[j]

FlipSign(a) == [a EXCEPT ![Len(a)] = (@ + 128) % 256]

SignedAbove(a, b) == UnsignedAbove(FlipSign(a), FlipSign(b))

\* The condition of a conditional jump, on the 64 bits of reg[dst] and on
\* reg[src] or the immediate sign-extended to 64 bits.
JumpCondition(insn, r) ==
  LET D == r[insn.dst]
      X == IF insn.opc \in RegSourceOps THEN r[insn.src]
           ELSE insn.imm \o (IF insn.imm[4] >= 128 THEN <<255, 255, 255, 255>>
                             ELSE <<0, 0, 0, 0>>)
      o == insn.opc
  IN  CASE o \in {ebpf.JEQ_IMM, ebpf.JEQ_REG} -> D = X
        [] o \in {ebpf.JNE_IMM, ebpf.JNE_REG} -> D # X
        [] o \in {ebpf.JGT_IMM, ebpf.JGT_REG} -> UnsignedAbove(D, X)
        [] o \in {ebpf.JGE_IMM, ebpf.JGE_REG} -> UnsignedAbove(D, X) \/ D = X
        [] o \in {ebpf.JSGT_IMM, ebpf.JSGT_REG} -> SignedAbove(D, X)
        [] o \in {ebpf.JSGE_IMM, ebpf.JSGE_REG} -> SignedAbove(D, X) \/ D = X
        [] o \in {ebpf.JSET_IMM, ebpf.JSET_REG} ->
             \E i \in 0..63 : BitOf(D, i) = 1 /\ BitOf(X, i) = 1

\* C30: a conditional jump whose condition is false leaves insn_ptr at the
\* slot after it; one whose condition is true is taken (to the slot
\* insn_ptr + 1 + off, for slots and targets that 16 signed bits hold); the
\* condition is that of JumpCondition.  No jump, JA included, changes a
\* register or a byte of the stack, the packet or the metadata buffer.
C30_ConditionalJumps ==
  [][LET insn == get_insn(prog, insn_ptr)
         o == insn.opc
     IN  (/\ pc = "running"
          /\ loop_test = "body"
          /\ o \in JumpOps)
         => /\ reg' = reg
            /\ stack' = stack
            /\ mem' = mem
            /\ mbuff' = mbuff
            /\ buffer' = buffer
            /\ (o # ebpf.JA /\ ~JumpCondition(insn, reg))
                 => pc' = "running" /\ insn_ptr' = insn_ptr + 1
            /\ (/\ o # ebpf.JA
                /\ JumpCondition(insn, reg)
                /\ insn_ptr + 1 < 32768
                /\ insn_ptr + 1 + insn.off \in 0..32767)
                 => pc' = "running" /\ insn_ptr' = insn_ptr + 1 + insn.off]_vars

\* `jsgt r0, -1, +2` on r0 = 0x180000001 was taken: the register is above -1
\* as a signed number and below it as an unsigned one.
C30_Witness ==
  /\ Executed({ebpf.JSGT_IMM})
  /\ pc = "running"
  /\ hist.last.insn.imm = Ones(4)
  /\ hist.last.insn.off = 2
  /\ reg[0] = <<1, 0, 0, 128, 1, 0, 0, 0>>
  /\ insn_ptr = hist.last.idx + 3


\* What the out-of-bounds panic of check_mem prints: the insn_ptr, the
\* address and the length it was called with.
OutOfBoundsMessage ==
  [insn |-> hist.access.insn_ptr, addr |-> hist.access.addr, len |-> hist.access.len]

\* C31: the out-of-bounds diagnostic carries the slot index of the load or
\* store that made the rejected access, the address of that access (the base
\* register of the instruction plus its offset) and its width.
C31_OutOfBoundsDiagnostic ==
  (pc = "panicked" /\ fault = "out of bounds")
  => LET insn == hist.last.insn
         b == IF insn.opc \in LoadOps THEN insn.src ELSE insn.dst
     IN  /\ OutOfBoundsMessage.insn = hist.last.idx
         /\ OutOfBoundsMessage.addr = ModSum(reg[b], SignExtend(I16Bytes(insn.off), 8))
         /\ OutOfBoundsMessage.len = width_of(insn.opc)


\* C32: in a program without branches, a load of width W that follows a
\* register store of width W through the same base register and offset,
\* both gone through, leaves in its destination the W low bytes of the
\* register stored under zeros, whatever the byte order of the host; and
\* every load of width W that goes through leaves a value below 2^(8W).
C32_StoreLoadRoundTrip ==
  (Executed(LoadOps) /\ pc = "running") =>
    LET ld == hist.last.insn
        w == width_of(ld.opc)
    IN  /\ \A i \in (w + 1)..8 : reg[ld.dst][i] = 0
        /\ hist.last.idx > 0 =>
             LET st == get_insn(prog, hist.last.idx - 1)
             IN  (/\ st.opc \in StoreRegOps
                  /\ width_of(st.opc) = w
                  /\ st.dst = ld.src
                  /\ st.off = ld.off
                  /\ ld.dst \notin {ld.src, st.src})
                 => \A i \in 1..w : reg[ld.dst][i] = reg[st.src][i]

\* The 4 low bytes of the register stored were loaded back into r0, which
\* held -1, from a packet or a metadata buffer of a host of the other byte
\* order.
C32_Witness ==
  /\ Executed({ebpf.LD_W_REG})
  /\ pc = "running"
  /\ endian = "big"
  /\ hist.last.insn.src = 1
  /\ get_insn(prog, hist.last.idx - 1).opc = ebpf.ST_W_REG
  /\ reg[0] = <<136, 247, 102, 213, 0, 0, 0, 0>>


\* C33: a store of width W at address A that goes through leaves the
\* execution running; exactly one region holds the bytes [A, A + W); the
\* bytes of that region before A and from A + W on, every byte of the two
\* other regions, the eleven registers, the program and the helper table are
\* what they were before the store.
C33_StoreFrame ==
  [][LET insn == get_insn(prog, insn_ptr)
         w == width_of(insn.opc)
         A == ModSum(reg[insn.dst], SignExtend(I16Bytes(insn.off), 8))
         before == [r \in RegionNames |-> Locals[r]]
         after == [r \in RegionNames |-> Locals'[r]]
     IN  (/\ pc = "running"
          /\ loop_test = "body"
          /\ insn.opc \in StoreOps
          /\ pc' = "running")
         => /\ reg' = reg
            /\ prog' = prog
            /\ helpers' = helpers
            /\ \E r \in RegionNames :
                 /\ Holding(Locals, A, w) = {r}
                 /\ \A q \in RegionNames \ {r} : after[q] = before[q]
                 /\ Len(after[r]) = Len(before[r])
                 /\ \A i \in 1..Len(before[r]) :
                      (i <= OffsetIn(r, A) \/ i > OffsetIn(r, A) + w)
                        => after[r][i] = before[r][i]]_vars

\* A store of 4 bytes below the top of the stack has gone through: the last
\* 4 bytes of the stack hold the low bytes of r0 and the 508 before them are
\* zero.
C33_Witness ==
  /\ Executed({ebpf.ST_W_REG})
  /\ pc = "running"
  /\ endian = "little"
  /\ hist.last.insn.dst = 10
  /\ hist.last.insn.off = -4
  /\ SubSeq(stack, 509, 512) = <<136, 119, 102, 85>>
  /\ SubSeq(stack, 1, 508) = Zeros(508)


\* C34: on the fixed facade, whatever new and set_prog calls were made
\* (of accepted or rejected programs), the buffer has
\* max(data_offset, data_end_offset) + 8 bytes, so both offsets leave room
\* for 8 bytes, and no prog_exec ends with the "buffer too small" fault.
C34_FixedBufferLength ==
  kind = "fixed"
  => /\ data_offset >= 0
     /\ data_end_offset >= 0
     /\ Len(buffer) = (IF data_offset >= data_end_offset THEN data_offset
                       ELSE data_end_offset) + 8
     /\ data_offset + 8 <= Len(buffer)
     /\ data_end_offset + 8 <= Len(buffer)
     /\ fault # "buffer too small"


\* C35: every slot the interpreter decodes is a slot of the program: the
\* slot fetched at the top of the loop, and, when the instruction fetched is
\* an LD_DW_IMM, the slot after it, fetched by its arm.
C35_DecodesInsideProgram ==
  hist.op = "step"
  => /\ hist.last.idx >= 0
     /\ hist.last.idx < NumSlots(prog)
     /\ hist.last.insn.opc = ebpf.LD_DW_IMM => hist.last.idx + 1 < NumSlots(prog)

\* An LD_DW_IMM reached by a branch has fetched the last slot of the program
\* as its second slot.
C35_Witness ==
  /\ Executed({ebpf.LD_DW_IMM})
  /\ pc = "running"
  /\ hist.last.idx > 0
  /\ get_insn(prog, 0).opc = ebpf.JA
  /\ hist.last.idx + 2 = NumSlots(prog)
  /\ insn_ptr = NumSlots(prog)


\* C36: no execution of an accepted program dispatches on an opcode outside
\* the recognised set (the default arm of the match is never taken), and no
\* instruction dispatched indexes the registers with a number above 10.
C36_DispatchesRecognised ==
  /\ fault # "unreachable"
  /\ hist.op = "step"
     => /\ hist.last.insn.opc \in KnownOpcodes
        /\ hist.last.insn.opc \in RegSourceOps => hist.last.insn.src <= 10
        /\ hist.last.insn.opc \in RegDestOps => hist.last.insn.dst <= 10


\* The function the registrations made so far leave under key k: that of the
\* last of them (k is among the keys of the first n registrations).
LastRegistered(k) ==
  hist.log[CHOOSE i \in 1..Len(hist.log) :
             /\ hist.log[i][1] = k
             /\ \A j \in (i + 1)..Len(hist.log) : hist.log[j][1] # k][2]

\* The keys registered before set_prog was last called.
RegisteredBeforeSetProg == { hist.log[i][1] : i \in 1..hist.loaded }

\* C37: set_prog leaves the helper table alone: after the call every helper
\* registered before it is registered under its key, and a CALL of the new
\* program with such a key reaches the function last registered under it.
C37_SetProgKeepsHelpers ==
  /\ hist.op = "set_prog"
     => /\ DOMAIN helpers = { hist.log[i][1] : i \in 1..Len(hist.log) }
        /\ \A k \in DOMAIN helpers : helpers[k] = LastRegistered(k)
  /\ (Executed({ebpf.CALL}) /\ hist.last.insn.imm \in RegisteredBeforeSetProg)
     => /\ fault # "unknown helper"
        /\ hist.call.key = hist.last.insn.imm
        /\ hist.call.function = LastRegistered(hist.last.insn.imm)

\* A CALL of a program loaded by set_prog has reached a helper registered
\* while the program given to new was loaded.
C37_Witness ==
  /\ Executed({ebpf.CALL})
  /\ calls.set_prog > 0
  /\ prog = hist.accepted
  /\ hist.loaded > 0
  /\ hist.last.insn.imm \in RegisteredBeforeSetProg
  /\ hist.call.function \in HelperFns
  /\ pc = "running"


\* C38: once jit_compile was called, prog_exec_jit returns what prog_exec
\* returns for the program that is loaded, on the same inputs: here against
\* the prog_exec call made just before it on the same program and inputs.
C38_JitRunsLoadedProgram ==
  ( /\ hist.op = "prog_exec_jit"
    /\ calls.jit_compile > 0
    /\ hist.prev.given.by = "prog_exec"
    /\ hist.prev.prog = prog
    /\ hist.prev.given.mem = hist.given.mem
    /\ hist.prev.given.mbuff = hist.given.mbuff
    /\ hist.prev.pc = "returned" )
  => /\ pc = "returned"
     /\ result = hist.prev.result

\* C39: on a VM on which jit_compile was never called every prog_exec_jit
\* call panics with "program has not been JIT-compiled" and returns nothing,
\* on every facade; a prog_exec call ends as the loaded program has it end
\* (r0 = the immediate of its mov64), whether or not jit_compile was called.
C39_JitOrdering ==
  /\ (hist.op = "prog_exec_jit" /\ calls.jit_compile = 0)
     => /\ pc = "panicked"
        /\ fault = "program has not been JIT-compiled"
        /\ result = Zeros(8)
  /\ hist.given.by = "prog_exec"
     => /\ pc \in {"running", "returned"}
        /\ fault = ""
        /\ pc = "returned" => result = SignExtend(get_insn(prog, 0).imm, 8)

\* On the fixed facade a prog_exec_jit call has panicked on a VM that was
\* never compiled, after a prog_exec call on the same VM returned 2.
C39_Witness ==
  /\ hist.op = "prog_exec_jit"
  /\ calls.jit_compile = 0
  /\ kind = "fixed"
  /\ pc = "panicked"
  /\ hist.prev.given.by = "prog_exec"
  /\ hist.prev.pc = "returned"
  /\ hist.prev.result = U64(2)

====
